---- MODULE Spec2Model ----
(***************************************************************************)
(* DeepShell configuration and credential management                      *)
(* (settings.py, gemini.py, ollama.py, and the older single-file copy in  *)
(* main.py, whose main() also holds the query action).                    *)
(*                                                                         *)
(* Strings read from the terminal are sequences of one-character strings, *)
(* so that strip(), lower() and int() are computed, not assumed.          *)
(* Python's None is the empty sequence for a nickname or a secret (the    *)
(* code only ever tests those for truthiness or compares them with stored *)
(* non-empty values) and the string "None" for a service or model name.   *)
(***************************************************************************)
EXTENDS Integers, Sequences, FiniteSets, TLC

VARIABLES
    disk,   \* the configuration file: [state, doc]
    mem,    \* config_data of the running process
    pc,     \* position of the running process ("idle": no process)
    stack,  \* return positions of the callers of the running function
    loc,    \* local variables of the running functions
    inp,    \* the line just read: one the add-key dialogue rejected, the
            \* answer to "Make ... active?", the number of the key to
            \* remove, the service number chosen, the answer to "Are you
            \* sure you want to delete ...?", the answer to "Configure
            \* Gemini service now?", the line typed at a model prompt, the
            \* 'x' that leaves the key menu
    out,    \* messages of the last step: those of the add-key dialogue, of
            \* save_config and of a run that ended (others are not recorded)
    ret,    \* result of the last _get_active_gemini_key_value call
    exit,   \* exit status of the process that just ended (-1: none, running)
    jumps,  \* consecutive completed jumps: [n, active, previous] before them
    io,     \* "ok": writes to the file succeed; "faulty": they may fail
    sender, \* the thread inside a send function: [pc, service, outcome]
    stop_event,        \* threading.Event of the send function: is it set
    animation_thread,  \* the thread running _animate_progress:
                       \* [pc, position, direction]
    stdout, \* the terminal: its lines, the cursor is on the last one
    peers   \* invocations that run side by side on one file: for each
            \* its position and its config_data

vars == <<disk, mem, pc, stack, loc, inp, out, ret, exit, jumps, io,
          sender, stop_event, animation_thread, stdout, peers>>

\* a step of a process that runs alone and sends nothing
Alone == UNCHANGED <<sender, stop_event, animation_thread, stdout, peers>>

----------------------------------------------------------------------------
\* Bounds

\* Number of different nicknames the user types at the nickname prompt; as
\* nicknames are unique in a key list, also the longest key list.
MaxNicks == 2

\* Nicknames typed at the prompts (the first two differ in case only); for
\* each nickname the user types the secret that belongs to it.
NickNames == <<<<"a">>, <<"A">>, <<"b">>, <<"B">>>>
NickPool == {NickNames[i] : i \in 1..MaxNicks}
SecretFor(nick) ==
    CASE nick = <<"a">> -> <<"k">>
      [] nick = <<"A">> -> <<"q">>
      [] nick = <<"b">> -> <<"r">>
      [] OTHER -> <<"s">>

\* Lines typed at the prompts
MenuInputs == {<<"1">>, <<"2">>, <<"3">>, <<"c">>, <<" ", "C">>, <<"x">>, <<"X", " ">>, <<"9">>, << >>}
NickInputs == {<<" ">>, <<" ", "a", " ">>} \cup (NickPool \ {<<"a">>})
KeyInputs(nick) == {<< >>, <<" ">>, SecretFor(nick), <<" ">> \o SecretFor(nick) \o <<" ">>}
YesNoInputs == {<< >>, <<" ", "Y">>, <<"n">>, <<"N", " ">>, <<"q">>}
NumberInputs == {<<"0">>, <<"1">>, <<" ", "2">>, <<"3">>, <<"4">>, <<"-", "1">>, <<"x">>}
SetupNickInputs == {<<" ">>, <<" ", "a", " ">>}
AddressInputs == {<< >>, <<" ", "h">>, <<"h", ":", "1">>}
ModelInputs == {<< >>, <<"0">>, <<"1">>, <<" ", "2">>, <<"3">>, <<"x">>, <<"c">>, <<"C", " ">>}
NoModelsInputs == {<< >>, <<"s">>, <<" ", "M">>, <<"q">>}
SettingsInputs == {<<"1">>, <<" ", "2">>, <<"3">>, <<"4">>, <<"5">>, <<"6">>, <<"7">>, <<"x">>, <<"X", " ">>}

\* What a server answers to a request for its models: an error (the fetch
\* function returns None), an empty list, or this list
ModelList == <<"m1", "m2b">>
FetchOutcomes == {"error", "empty", "models"}

----------------------------------------------------------------------------
\* Text helpers

None == "None"
NoText == << >>

IsSpace(c) == c \in {" ", "\t"}

RECURSIVE LStrip(_)
LStrip(s) ==
    IF s = << >> THEN s
    ELSE IF IsSpace(Head(s)) THEN LStrip(Tail(s)) ELSE s

RECURSIVE RStrip(_)
RStrip(s) ==
    IF s = << >> THEN s
    ELSE IF IsSpace(s[Len(s)]) THEN RStrip(SubSeq(s, 1, Len(s) - 1)) ELSE s

\* str.strip()
Strip(s) == RStrip(LStrip(s))

LowerChar(c) ==
    CASE c = "A" -> "a"
      [] c = "B" -> "b"
      [] c = "C" -> "c"
      [] c = "M" -> "m"
      [] c = "N" -> "n"
      [] c = "X" -> "x"
      [] c = "Y" -> "y"
      [] OTHER -> c

\* str.lower()
Lower(s) == [i \in 1..Len(s) |-> LowerChar(s[i])]

Digits == <<"0", "1", "2", "3", "4", "5", "6", "7", "8", "9">>

DigitVal(c) == (CHOOSE i \in 1..Len(Digits) : Digits[i] = c) - 1

IsDigits(s) == s # << >> /\ \A i \in 1..Len(s) : \E j \in 1..Len(Digits) : Digits[j] = s[i]

RECURSIVE DigitsVal(_)
DigitsVal(s) ==
    IF s = << >> THEN 0
    ELSE 10 * DigitsVal(SubSeq(s, 1, Len(s) - 1)) + DigitVal(s[Len(s)])

\* int(text) raises ValueError unless text is an optionally signed digit string
IsInt(s) ==
    \/ IsDigits(s)
    \/ Len(s) > 1 /\ s[1] \in {"-", "+"} /\ IsDigits(Tail(s))

IntOf(s) ==
    IF s[1] = "-" THEN 0 - DigitsVal(Tail(s))
    ELSE IF s[1] = "+" THEN DigitsVal(Tail(s))
    ELSE DigitsVal(s)

\* the answer to a "(Y/n)" prompt: 'y' or a bare Enter
IsYes(answer) == answer = <<"y">> \/ answer = << >>

----------------------------------------------------------------------------
\* The configuration document

LLM_SERVICE_OLLAMA == "ollama"
LLM_SERVICE_GEMINI == "gemini"
SUPPORTED_LLM_SERVICES == <<LLM_SERVICE_OLLAMA, LLM_SERVICE_GEMINI>>

Services == {SUPPORTED_LLM_SERVICES[i] : i \in 1..Len(SUPPORTED_LLM_SERVICES)}

\* get_default_config_structure()
DefaultConfig ==
    [active_llm_service |-> None,
     previous_active_llm_service |-> None,
     llm_services |-> << >>]

\* the keys of config_data["llm_services"], in the order of the supported
\* services (the code lists them in insertion order; no property checked
\* here depends on which number a service gets)
ConfiguredServices(cfg) ==
    SelectSeq(SUPPORTED_LLM_SERVICES, LAMBDA s : s \in DOMAIN cfg.llm_services)

HasService(cfg, s) == s \in DOMAIN cfg.llm_services

\* config_data["llm_services"][s] = profile
WithService(cfg, s, profile) ==
    [cfg EXCEPT !.llm_services =
        [t \in (DOMAIN cfg.llm_services) \cup {s} |->
            IF t = s THEN profile ELSE cfg.llm_services[t]]]

----------------------------------------------------------------------------
\* Credentials (gemini.py)

\* variant: no entry is ever found
FindKeyByNicknameNever(nickname, keys_list) == 0

\* variant: nicknames compared without regard to case
FindKeyByNicknameAnyCase(nickname, keys_list) ==
    IF \E i \in 1..Len(keys_list) : Lower(keys_list[i].nickname) = Lower(nickname)
    THEN CHOOSE i \in 1..Len(keys_list) :
            /\ Lower(keys_list[i].nickname) = Lower(nickname)
            /\ \A j \in 1..(i - 1) : Lower(keys_list[j].nickname) # Lower(nickname)
    ELSE 0

\* _find_key_by_nickname: the position of the first entry with that
\* nickname, 0 for None
FindKeyByNickname(nickname, keys_list) ==
    IF \E i \in 1..Len(keys_list) : keys_list[i].nickname = nickname
    THEN CHOOSE i \in 1..Len(keys_list) :
            /\ keys_list[i].nickname = nickname
            /\ \A j \in 1..(i - 1) : keys_list[j].nickname # nickname
    ELSE 0

\* _get_key_value_by_nickname
GetKeyValueByNickname(nickname, keys_list) ==
    LET item == FindKeyByNickname(nickname, keys_list)
    IN  IF item # 0 THEN keys_list[item].key ELSE NoText

\* variant: without the test for an empty key list
GetActiveGeminiKeyValueAnyList(gemini_config) ==
    LET active_nickname == gemini_config.active_api_key_nickname
        api_keys_list == gemini_config.api_keys
    IN  IF active_nickname = NoText
        THEN <<NoText, NoText>>
        ELSE IF \E i \in 1..Len(api_keys_list) : api_keys_list[i].nickname = active_nickname
             THEN LET first == CHOOSE i \in 1..Len(api_keys_list) :
                            /\ api_keys_list[i].nickname = active_nickname
                            /\ \A j \in 1..(i - 1) :
                                    api_keys_list[j].nickname # active_nickname
                  IN  <<api_keys_list[first].key, active_nickname>>
             ELSE <<NoText, active_nickname>>

\* _get_active_gemini_key_value: <<key, nickname>>
GetActiveGeminiKeyValue(gemini_config) ==
    LET active_nickname == gemini_config.active_api_key_nickname
        api_keys_list == gemini_config.api_keys
    IN  IF active_nickname = NoText \/ api_keys_list = << >>
        THEN <<NoText, NoText>>
        ELSE IF \E i \in 1..Len(api_keys_list) : api_keys_list[i].nickname = active_nickname
             THEN LET first == CHOOSE i \in 1..Len(api_keys_list) :
                            /\ api_keys_list[i].nickname = active_nickname
                            /\ \A j \in 1..(i - 1) :
                                    api_keys_list[j].nickname # active_nickname
                  IN  <<api_keys_list[first].key, active_nickname>>
             ELSE <<NoText, active_nickname>>

\* the menu's test for offering and accepting "C. Continue"
CanContinue(active, keys_list) ==
    active # NoText /\ GetKeyValueByNickname(active, keys_list) # NoText

\* the sequence s without its i-th element: list.pop(i - 1)
Pop(s, i) == SubSeq(s, 1, i - 1) \o SubSeq(s, i + 1, Len(s))

\* a Gemini profile and an Ollama profile of config_data["llm_services"]
GeminiProfile(keys, active, model) ==
    [api_keys |-> keys, active_api_key_nickname |-> active, model |-> model]

OllamaProfile(address, model) == [server_address |-> address, model |-> model]

Gem(cfg) == cfg.llm_services[LLM_SERVICE_GEMINI]

\* The key menu works on gemini_config_part (a reference into config_data)
\* and on its own copy of the active nickname; each operation below returns
\* [cfg, active]: the profile and the local copy (the add dialogue also
\* returns out, the messages it shows).

\* api_keys_list.append({"nickname": ..., "key": ...})
AppendKey(cfg, new_nickname, new_api_key_value) ==
    [cfg EXCEPT !.api_keys =
        Append(@, [nickname |-> new_nickname, key |-> new_api_key_value])]

\* variant: the new key is made active only while no usable key is active
AnswerMakeActiveIfUnset(cfg, active, new_nickname, answer) ==
    IF IsYes(Lower(Strip(answer))) /\ ~CanContinue(active, cfg.api_keys)
    THEN [cfg |-> [cfg EXCEPT !.active_api_key_nickname = new_nickname],
          active |-> new_nickname,
          out |-> {"set_active"}]
    ELSE [cfg |-> cfg, active |-> active, out |-> {}]

\* gemini.py: the answer to "Make '<nickname>' the active API key? (Y/n)"
AnswerMakeActive(cfg, active, new_nickname, answer) ==
    IF IsYes(Lower(Strip(answer)))
    THEN [cfg |-> [cfg EXCEPT !.active_api_key_nickname = new_nickname],
          active |-> new_nickname,
          out |-> {"set_active"}]
    ELSE [cfg |-> cfg, active |-> active, out |-> {}]

\* variant: a key added is never made active
AutoActivateNever(cfg, active, new_nickname) ==
    [cfg |-> cfg, active |-> active, out |-> {"key_added"}]

\* main.py: after the append, "Auto-activate if first key or no active key"
AutoActivateOnAdd(cfg, active, new_nickname) ==
    IF active = NoText \/ Len(cfg.api_keys) = 1
    THEN [cfg |-> [cfg EXCEPT !.active_api_key_nickname = new_nickname],
          active |-> new_nickname,
          out |-> {"key_added", "set_active"}]
    ELSE [cfg |-> cfg, active |-> active, out |-> {"key_added"}]

\* menu option 2, "Set an API key as active"; number is the line typed
SetActiveKey(cfg, active, number) ==
    LET keys == cfg.api_keys
        idx == IntOf(Strip(number)) - 1
    IN  IF Len(keys) = 1
        THEN [cfg |-> [cfg EXCEPT !.active_api_key_nickname = keys[1].nickname],
              active |-> keys[1].nickname]
        ELSE IF ~IsInt(Strip(number))
        THEN [cfg |-> cfg, active |-> active]
        ELSE IF 0 <= idx /\ idx < Len(keys)
        THEN [cfg |-> [cfg EXCEPT !.active_api_key_nickname = keys[idx + 1].nickname],
              active |-> keys[idx + 1].nickname]
        ELSE [cfg |-> cfg, active |-> active]

\* variant: the remaining key is not promoted
AfterRemovalUnpromoted(cfg, active, removed_nickname) ==
    IF removed_nickname = active
    THEN [cfg |-> [cfg EXCEPT !.active_api_key_nickname = NoText], active |-> NoText]
    ELSE [cfg |-> cfg, active |-> active]

\* after the pop: the removed key was the active one, or one key remains
AfterRemoval(cfg, active, removed_nickname) ==
    LET wasActive == removed_nickname = active
        active1 == IF wasActive THEN NoText ELSE active
        cfg1 == IF wasActive THEN [cfg EXCEPT !.active_api_key_nickname = NoText] ELSE cfg
        keys == cfg1.api_keys
    IN  IF Len(keys) = 1
        THEN IF active1 # keys[1].nickname
             THEN [cfg |-> [cfg1 EXCEPT !.active_api_key_nickname = keys[1].nickname],
                   active |-> keys[1].nickname]
             ELSE [cfg |-> cfg1, active |-> active1]
        ELSE [cfg |-> cfg1, active |-> active1]

\* variant: a removal leaves the active nickname as it is
RemoveKeyKeepsPointer(cfg, active, number) ==
    LET keys == cfg.api_keys
        idx == IntOf(Strip(number)) - 1
    IN  IF IsInt(Strip(number)) /\ 0 <= idx /\ idx < Len(keys)
        THEN [cfg |-> [cfg EXCEPT !.api_keys = Pop(keys, idx + 1)], active |-> active]
        ELSE [cfg |-> cfg, active |-> active]

\* variant: the number after the last key removes the last key
RemoveKeyOffByOne(cfg, active, number) ==
    LET keys == cfg.api_keys
        idx == IntOf(Strip(number)) - 1
    IN  IF ~IsInt(Strip(number))
        THEN [cfg |-> cfg, active |-> active]
        ELSE IF 0 <= idx /\ idx < Len(keys)
        THEN AfterRemoval([cfg EXCEPT !.api_keys = Pop(keys, idx + 1)],
                          active, keys[idx + 1].nickname)
        ELSE IF idx = Len(keys)
        THEN AfterRemoval([cfg EXCEPT !.api_keys = Pop(keys, idx)],
                          active, keys[idx].nickname)
        ELSE [cfg |-> cfg, active |-> active]

\* menu option 3, "Remove an API key"; number is the line typed
RemoveKey(cfg, active, number) ==
    LET keys == cfg.api_keys
        idx == IntOf(Strip(number)) - 1
    IN  IF ~IsInt(Strip(number))
        THEN [cfg |-> cfg, active |-> active]
        ELSE IF 0 <= idx /\ idx < Len(keys)
        THEN AfterRemoval([cfg EXCEPT !.api_keys = Pop(keys, idx + 1)],
                          active, keys[idx + 1].nickname)
        ELSE IF idx = Len(keys)
        THEN [cfg |-> cfg, active |-> active]
        ELSE [cfg |-> cfg, active |-> active]

----------------------------------------------------------------------------
\* Active and previous service (settings.py)

\* str(idx) for a menu number
NumberText(i) == <<Digits[i + 1]>>

\* variant: the service switched from is not recorded
MakeActiveUnrecorded(cfg, chosen_service) ==
    [cfg EXCEPT !.active_llm_service = chosen_service]

\* variant: the service switched to is recorded as the previous one
MakeActiveRecordsChosen(cfg, chosen_service) ==
    [cfg EXCEPT !.active_llm_service = chosen_service,
                !.previous_active_llm_service = chosen_service]

\* the assignments of a switch to another service
MakeActive(cfg, chosen_service) ==
    LET current_active_for_previous == cfg.active_llm_service
    IN  [cfg EXCEPT
            !.active_llm_service = chosen_service,
            !.previous_active_llm_service =
                IF current_active_for_previous # None
                THEN current_active_for_previous ELSE @]

\* _handle_switch_active_llm, from the prompt on: [cfg, save, out]
SwitchActiveLlm(cfg, line) ==
    LET configured_services == ConfiguredServices(cfg)
        n == Len(configured_services)
        choice == Lower(Strip(line))
        chosen == CHOOSE i \in 1..(n + 1) : NumberText(i) = choice
    IN  IF ~(\E i \in 1..(n + 1) : NumberText(i) = choice)
        THEN [cfg |-> cfg, save |-> FALSE, out |-> {"invalid_selection"}]
        ELSE IF chosen = n + 1
        THEN [cfg |-> cfg, save |-> FALSE, out |-> {"switch_cancelled"}]
        ELSE IF cfg.active_llm_service # configured_services[chosen]
        THEN [cfg |-> MakeActive(cfg, configured_services[chosen]),
              save |-> TRUE,
              out |-> {"now_active"}]
        ELSE [cfg |-> cfg, save |-> FALSE, out |-> {"already_active"}]

\* variant: no recorded previous service ends the run with status 1
NoPreviousIsError(cfg) ==
    [cfg |-> cfg, save |-> FALSE, out |-> {"no_previous"}, exit |-> 1]

\* "No previously active LLM service recorded to jump to.": sys.exit(0)
NoPreviousRecorded(cfg) ==
    [cfg |-> cfg, save |-> FALSE, out |-> {"no_previous"}, exit |-> 0]

\* variant: the invalid previous service is left in the document
PreviousKept(cfg) ==
    [cfg |-> cfg, save |-> FALSE, out |-> {"stale_previous"}, exit |-> 1]

\* "... is no longer configured.": clear invalid previous, save, sys.exit(1)
PreviousNoLongerConfigured(cfg) ==
    [cfg |-> [cfg EXCEPT !.previous_active_llm_service = None],
     save |-> TRUE, out |-> {"stale_previous"}, exit |-> 1]

\* variant: the service jumped from is not recorded
PerformJumpOneWay(cfg) ==
    [cfg |-> [cfg EXCEPT !.active_llm_service = cfg.previous_active_llm_service],
     save |-> TRUE, out |-> {"jumped"}, exit |-> 0]

\* variant: the jump uses up the recorded previous service
PerformJumpOnce(cfg) ==
    [cfg |-> [cfg EXCEPT
                !.active_llm_service = cfg.previous_active_llm_service,
                !.previous_active_llm_service = None],
     save |-> TRUE, out |-> {"jumped"}, exit |-> 0]

\* "Perform the jump": the current becomes the new previous
PerformJump(cfg) ==
    [cfg |-> [cfg EXCEPT
                !.active_llm_service = cfg.previous_active_llm_service,
                !.previous_active_llm_service = cfg.active_llm_service],
     save |-> TRUE, out |-> {"jumped"}, exit |-> 0]

\* jump_to_previous_llm, after a successful load: [cfg, save, out, exit]
JumpToPrevious(cfg) ==
    LET current_active_service == cfg.active_llm_service
        previous_active_service == cfg.previous_active_llm_service
    IN  IF previous_active_service = None
        THEN NoPreviousRecorded(cfg)
        ELSE IF ~HasService(cfg, previous_active_service)
        THEN PreviousNoLongerConfigured(cfg)
        ELSE IF current_active_service = previous_active_service
        THEN [cfg |-> cfg, save |-> FALSE, out |-> {"already_using"}, exit |-> 0]
        ELSE PerformJump(cfg)

----------------------------------------------------------------------------
\* The configuration file

Absent == [state |-> "absent", doc |-> DefaultConfig]
Corrupt == [state |-> "corrupt", doc |-> DefaultConfig]
Stored(cfg) == [state |-> "ok", doc |-> cfg]

\* save_config: the file afterwards and the value returned.  A failed write
\* leaves the old file (open() failed) or a truncated one (dump failed).
SaveConfig(file, cfg) ==
    {[ok |-> TRUE, disk |-> Stored(cfg), out |-> {"saved"}]}
    \cup (IF io = "faulty"
          THEN {[ok |-> FALSE, disk |-> file, out |-> {"save_error"}],
                [ok |-> FALSE, disk |-> Corrupt, out |-> {"save_error"}]}
          ELSE {})

\* load_config
LoadFails(file) == file.state = "corrupt"
LoadIsNone(file) == file.state = "absent"

----------------------------------------------------------------------------
\* Initial states: no file, an unreadable file, or a document written by an
\* earlier run or by hand (so pointers may dangle)

Entries == {[nickname |-> n, key |-> SecretFor(n)] : n \in NickPool}

KeyListsOf(n) ==
    {s \in [1..n -> Entries] :
        \A i, j \in 1..n : i # j => s[i].nickname # s[j].nickname}

KeyLists == UNION {KeyListsOf(n) : n \in 0..MaxNicks}

OllamaSample == OllamaProfile(<<"http://", "h", ":", "11434">>, "m1")
GeminiSample == GeminiProfile(<<[nickname |-> <<"a">>, key |-> <<"k">>]>>, <<"a">>, "m1")
SampleProfile(s) == IF s = LLM_SERVICE_OLLAMA THEN OllamaSample ELSE GeminiSample

PointerDocs ==
    {[active_llm_service |-> a,
      previous_active_llm_service |-> p,
      llm_services |-> [s \in S |-> SampleProfile(s)]] :
        a \in Services \cup {None}, p \in Services \cup {None},
        S \in {{}, {LLM_SERVICE_OLLAMA}, Services}}

CredentialDocs ==
    {[active_llm_service |-> LLM_SERVICE_GEMINI,
      previous_active_llm_service |-> None,
      llm_services |-> [s \in {LLM_SERVICE_GEMINI} |-> GeminiProfile(keys, active, "m1")]] :
        keys \in KeyLists, active \in NickPool \cup {NoText}}

InitFiles == {Absent, Corrupt} \cup {Stored(d) : d \in PointerDocs \cup CredentialDocs}

LocNone ==
    [active_api_key_nickname |-> NoText,
     new_nickname |-> NoText,     \* set only while the add dialogue runs
     impl |-> "",
     original_keys_config |-> GeminiProfile(<< >>, NoText, None),
     service_const |-> None,      \* the service _configure_selected_service sets up
     original_config_copy |-> DefaultConfig,
     updated |-> FALSE,           \* the setup function returned config_data, not None
     server_address |-> NoText]   \* the address typed, then the one that answered

NoJumps == [n |-> 0, active |-> None, previous |-> None]
NoResult == <<NoText, NoText>>

\* documents of the credential flows: Gemini alone, every key list and every
\* active nickname, and the document of a first run without any service
KeyFiles == {Absent, Corrupt} \cup {Stored(d) : d \in CredentialDocs \cup {DefaultConfig}}

\* documents of the service flows: every pair of pointers
ServiceFiles == {Absent, Corrupt} \cup {Stored(d) : d \in PointerDocs}

\* no send function is running and no invocation runs beside another
NoSender == [pc |-> "none", service |-> None, outcome |-> "none"]
NoThread == [pc |-> "none", position |-> 0, direction |-> 1]
Quiet ==
    /\ sender = NoSender
    /\ stop_event = FALSE
    /\ animation_thread = NoThread
    /\ stdout = << >>
    /\ peers = << >>

\* no process is running
NoProcess ==
    /\ mem = DefaultConfig
    /\ pc = "idle"
    /\ stack = << >>
    /\ loc = LocNone
    /\ inp = NoText
    /\ out = {}
    /\ ret = NoResult
    /\ exit = -1
    /\ jumps = NoJumps
    /\ io = "ok"
    /\ Quiet

Init == disk \in InitFiles /\ NoProcess

InitKeys == disk \in KeyFiles /\ NoProcess

InitServices == disk \in ServiceFiles /\ NoProcess

----------------------------------------------------------------------------
\* Processes

\* the process ends: sys.exit(status), or main() returns
Finish(status) ==
    /\ pc' = "idle"
    /\ stack' = << >>
    /\ loc' = LocNone
    /\ mem' = DefaultConfig
    /\ exit' = status

\* load_config on an unreadable file: message and sys.exit(1)
LoadError ==
    /\ out' = {"invalid_json"}
    /\ Finish(1)
    /\ UNCHANGED disk

\* jump_to_previous_llm (one run of the program)
JumpToPreviousLlm ==
    /\ pc = "idle"
    /\ inp' = NoText /\ ret' = NoResult /\ io' = io /\ Alone
    /\ IF LoadFails(disk) THEN LoadError /\ jumps' = NoJumps
       ELSE IF LoadIsNone(disk)
       THEN /\ out' = {"config_not_found"}
            /\ Finish(1)
            /\ jumps' = NoJumps
            /\ UNCHANGED disk
       ELSE LET r == JumpToPrevious(disk.doc)
                a == disk.doc.active_llm_service
                p == disk.doc.previous_active_llm_service
            IN  /\ IF r.save
                   THEN \E w \in SaveConfig(disk, r.cfg) :
                            /\ disk' = w.disk
                            /\ out' = r.out \cup w.out
                   ELSE /\ disk' = disk
                        /\ out' = r.out
                /\ Finish(r.exit)
                /\ jumps' =
                    IF jumps.n = 1 THEN [jumps EXCEPT !.n = 2]
                    ELSE IF HasService(disk.doc, a) /\ HasService(disk.doc, p)
                    THEN [n |-> 1, active |-> a, previous |-> p]
                    ELSE NoJumps

\* show_active_configuration: every path ends the run
ShowConfiguration ==
    /\ inp' = NoText /\ jumps' = NoJumps /\ io' = io /\ Alone
    /\ UNCHANGED disk
    /\ IF LoadFails(disk) THEN out' = {"invalid_json"} /\ Finish(1) /\ ret' = NoResult
       ELSE IF LoadIsNone(disk)
       THEN out' = {"config_not_found"} /\ Finish(1) /\ ret' = NoResult
       ELSE IF disk.doc.active_llm_service = None
       THEN out' = {"no_active_service"} /\ Finish(1) /\ ret' = NoResult
       ELSE IF ~HasService(disk.doc, disk.doc.active_llm_service)
       THEN out' = {"details_missing"} /\ Finish(1) /\ ret' = NoResult
       ELSE IF disk.doc.active_llm_service = LLM_SERVICE_GEMINI
       THEN LET r == GetActiveGeminiKeyValue(Gem(disk.doc))
            IN  /\ ret' = r
                /\ out' = IF r[2] # NoText /\ r[1] # NoText THEN {"key_shown"}
                          ELSE IF r[2] # NoText THEN {"key_value_missing"}
                          ELSE {"key_not_set"}
                /\ Finish(0)
       ELSE out' = {"server_shown"} /\ Finish(0) /\ ret' = NoResult

\* show_active_configuration (one run of the program)
ShowActiveConfiguration == pc = "idle" /\ ShowConfiguration

\* _manage_gemini_api_keys_interactive_menu is entered from caller, whose
\* own callers are stk: the two locals of the menu
EnterKeyMenuOn(stk, cfg, impl, caller) ==
    /\ mem' = cfg
    /\ loc' = [LocNone EXCEPT
                !.active_api_key_nickname = Gem(cfg).active_api_key_nickname,
                !.impl = impl,
                !.original_keys_config = Gem(cfg)]
    /\ pc' = "key_menu"
    /\ stack' = <<caller>> \o stk
    /\ exit' = -1

EnterKeyMenu(cfg, impl, caller) == EnterKeyMenuOn(stack, cfg, impl, caller)

\* setup_config(jump_to="gemini_keys") -> _handle_gemini_key_management,
\* for a stored document in which Gemini is configured
StartGeminiKeyManagement ==
    /\ pc = "idle"
    /\ inp' = NoText /\ ret' = NoResult /\ jumps' = NoJumps /\ io' = io /\ Alone
    /\ UNCHANGED disk
    /\ ~LoadIsNone(disk)
    /\ IF LoadFails(disk) THEN LoadError
       ELSE /\ HasService(disk.doc, LLM_SERVICE_GEMINI)
            /\ out' = {}
            /\ EnterKeyMenu(disk.doc, "gemini", "key_management")

\* main.py: set_gemini_api_key_interactive, for a file that exists
StartSetApiKey ==
    /\ pc = "idle"
    /\ inp' = NoText /\ ret' = NoResult /\ jumps' = NoJumps /\ io' = io /\ Alone
    /\ UNCHANGED disk
    /\ ~LoadIsNone(disk)
    /\ IF LoadFails(disk) THEN LoadError
       ELSE /\ out' = {}
            /\ EnterKeyMenu(
                IF HasService(disk.doc, LLM_SERVICE_GEMINI) THEN disk.doc
                ELSE WithService(disk.doc, LLM_SERVICE_GEMINI,
                                 GeminiProfile(<< >>, NoText, None)),
                "main", "set_api_key")

\* the locals of _configure_selected_service, those of its callees dropped
FrameLoc(l) ==
    [LocNone EXCEPT !.service_const = l.service_const,
                    !.original_config_copy = l.original_config_copy]

\* setup_config, "while True:": the file (now file) is loaded again, then
\* the settings menu is shown
ToSettingsMenu(file, outs) ==
    IF LoadFails(file) THEN out' = outs \cup {"invalid_json"} /\ Finish(1)
    ELSE IF LoadIsNone(file) THEN out' = outs \cup {"config_deleted"} /\ Finish(0)
    ELSE /\ out' = outs
         /\ pc' = "settings_menu"
         /\ stack' = <<"settings_menu">>
         /\ loc' = LocNone
         /\ mem' = file.doc
         /\ exit' = -1

\* a handler of setup_config returns to its caller stk: to the settings
\* menu, or (jump_to with a flag) setup_config returns and the run ends
EndHandler(stk, file, outs) ==
    IF stk # << >> /\ Head(stk) = "settings_menu"
    THEN ToSettingsMenu(file, outs)
    ELSE out' = outs /\ Finish(0)

\* variant: whatever the setup function returns counts as a completed setup
SetupReturnsCompleted(stk, cfg, updated, outs) ==
    /\ pc' = "setup_done"
    /\ stack' = stk
    /\ mem' = cfg
    /\ loc' = [FrameLoc(loc) EXCEPT !.updated = TRUE]
    /\ out' = outs
    /\ exit' = -1

\* _setup_ollama_service or _setup_gemini_service returns config_data
\* (updated) or None to its caller, the head of stk
SetupReturns(stk, cfg, updated, outs) ==
    /\ pc' = "setup_done"
    /\ stack' = stk
    /\ mem' = cfg
    /\ loc' = [FrameLoc(loc) EXCEPT !.updated = updated]
    /\ out' = outs
    /\ exit' = -1

\* _setup_gemini_service, "while True:": fetch_gemini_models and what it leads to
GeminiFetch(stk, cfg) ==
    \E models \in FetchOutcomes :
        /\ pc' = CASE models = "error" -> "gemini_retry"
                   [] models = "empty" -> "gemini_no_models"
                   [] OTHER -> "gemini_model"
        /\ stack' = stk
        /\ mem' = cfg
        /\ loc' = FrameLoc(loc)
        /\ out' = IF models = "error" THEN {"fetch_failed"} ELSE {}
        /\ exit' = -1

\* _setup_gemini_service after the key menu returned (proceed, nickname)
GeminiAfterKeys(cfg, proceed) ==
    /\ disk' = disk
    /\ IF ~proceed \/ loc.active_api_key_nickname = NoText
       THEN SetupReturns(Tail(stack), cfg, FALSE, {"no_active_key"})
       ELSE IF GetKeyValueByNickname(loc.active_api_key_nickname, Gem(cfg).api_keys) = NoText
       THEN SetupReturns(Tail(stack), cfg, FALSE, {"key_value_missing"})
       ELSE GeminiFetch(Tail(stack), cfg)

\* the menu returns (proceed, nickname) to its caller: _setup_gemini_service
\* goes on, the two others save
AfterKeyMenu(cfg, proceed) ==
    LET changed ==
            IF Head(stack) = "key_management"
            THEN Gem(cfg) # loc.original_keys_config
            ELSE \/ proceed
                 \/ Gem(cfg).active_api_key_nickname # NoText
                 \/ Gem(cfg).api_keys # << >>
        quiet == ~proceed /\ Gem(cfg).active_api_key_nickname = NoText
                 /\ Gem(cfg).api_keys = << >>
    IN  IF Head(stack) = "gemini_setup"
        THEN GeminiAfterKeys(cfg, proceed)
        ELSE \E w \in (IF changed THEN SaveConfig(disk, cfg)
                       ELSE {[ok |-> TRUE, disk |-> disk,
                              out |-> IF Head(stack) = "key_management" /\ ~quiet
                                      THEN {"no_changes"} ELSE {}]}) :
                /\ disk' = w.disk
                /\ EndHandler(Tail(stack), w.disk, w.out)

KeyMenuStep(r) ==
    /\ mem' = WithService(mem, LLM_SERVICE_GEMINI, r.cfg)
    /\ loc' = [loc EXCEPT !.active_api_key_nickname = r.active,
                          !.new_nickname = NoText]
    /\ pc' = "key_menu"
    /\ UNCHANGED <<disk, stack, exit>>

MenuFrame == inp' = NoText /\ ret' = NoResult /\ jumps' = NoJumps /\ io' = io /\ Alone

\* choice '1': the nickname prompt opens
MenuAdd ==
    /\ pc = "key_menu"
    /\ \E line \in MenuInputs : Lower(Strip(line)) = <<"1">>
    /\ pc' = "add_nickname"
    /\ loc' = [loc EXCEPT !.new_nickname = NoText]
    /\ out' = {}
    /\ MenuFrame
    /\ UNCHANGED <<disk, mem, stack, exit>>

\* "Enter a unique nickname for this API key: ", the line drawn from lines
AddNicknameFrom(lines) ==
    /\ pc = "add_nickname"
    /\ \E line \in lines :
        LET new_nickname == Strip(line)
        IN  IF new_nickname = NoText
               THEN out' = {"nickname_empty"} /\ pc' = pc /\ loc' = loc /\ inp' = line
               ELSE IF FindKeyByNickname(new_nickname, Gem(mem).api_keys) # 0
               THEN out' = {"nickname_exists"} /\ pc' = pc /\ loc' = loc /\ inp' = line
               ELSE /\ out' = {}
                    /\ inp' = NoText
                    /\ pc' = "add_key"
                    /\ loc' = [loc EXCEPT !.new_nickname = new_nickname]
    /\ ret' = NoResult /\ jumps' = NoJumps /\ io' = io /\ Alone
    /\ UNCHANGED <<disk, mem, stack, exit>>

AddNickname == AddNicknameFrom(NickInputs)

\* "Enter the new Gemini API Key: ", then the append
AddKeyValue ==
    /\ pc = "add_key"
    /\ \E line \in KeyInputs(loc.new_nickname) :
        LET new_api_key_value == Strip(line)
            added == AppendKey(Gem(mem), loc.new_nickname, new_api_key_value)
        IN  /\ inp' = IF new_api_key_value = NoText THEN line ELSE NoText
            /\ IF new_api_key_value = NoText
               THEN /\ out' = {"key_empty"}
                    /\ pc' = "key_menu"
                    /\ mem' = mem
                    /\ loc' = [loc EXCEPT !.new_nickname = NoText]
               ELSE IF loc.impl = "gemini"
               THEN /\ mem' = WithService(mem, LLM_SERVICE_GEMINI, added)
                    /\ out' = {"key_added"}
                    /\ pc' = "add_make_active"
                    /\ loc' = loc
               ELSE LET r == AutoActivateOnAdd(added, loc.active_api_key_nickname,
                                               loc.new_nickname)
                    IN  /\ mem' = WithService(mem, LLM_SERVICE_GEMINI, r.cfg)
                        /\ loc' = [loc EXCEPT !.active_api_key_nickname = r.active,
                                              !.new_nickname = NoText]
                        /\ out' = r.out
                        /\ pc' = "key_menu"
    /\ ret' = NoResult /\ jumps' = NoJumps /\ io' = io /\ Alone
    /\ UNCHANGED <<disk, stack, exit>>

\* gemini.py: "Make '<nickname>' the active API key? (Y/n): "
AddMakeActive ==
    /\ pc = "add_make_active"
    /\ \E line \in YesNoInputs :
        /\ inp' = line
        /\ out' = AnswerMakeActive(Gem(mem), loc.active_api_key_nickname,
                                   loc.new_nickname, line).out
        /\ KeyMenuStep(AnswerMakeActive(Gem(mem), loc.active_api_key_nickname,
                                        loc.new_nickname, line))
    /\ ret' = NoResult /\ jumps' = NoJumps /\ io' = io /\ Alone

\* choice '2' with keys configured
MenuSetActive ==
    /\ pc = "key_menu"
    /\ \E line \in MenuInputs : Lower(Strip(line)) = <<"2">>
    /\ Gem(mem).api_keys # << >>
    /\ \E number \in NumberInputs :
        KeyMenuStep(SetActiveKey(Gem(mem), loc.active_api_key_nickname, number))
    /\ out' = {}
    /\ MenuFrame

\* choice '3' with keys configured
MenuRemove ==
    /\ pc = "key_menu"
    /\ \E line \in MenuInputs : Lower(Strip(line)) = <<"3">>
    /\ Gem(mem).api_keys # << >>
    /\ \E number \in NumberInputs :
        /\ inp' = number
        /\ KeyMenuStep(RemoveKey(Gem(mem), loc.active_api_key_nickname, number))
    /\ out' = {}
    /\ ret' = NoResult /\ jumps' = NoJumps /\ io' = io /\ Alone

\* choice 'c' with a usable active key: return True
MenuContinue ==
    /\ pc = "key_menu"
    /\ \E line \in MenuInputs : Lower(Strip(line)) = <<"c">>
    /\ CanContinue(loc.active_api_key_nickname, Gem(mem).api_keys)
    /\ AfterKeyMenu(
        WithService(mem, LLM_SERVICE_GEMINI,
            [Gem(mem) EXCEPT !.active_api_key_nickname = loc.active_api_key_nickname]),
        TRUE)
    /\ MenuFrame

\* choice 'x': return whether a usable active key is set
MenuCancel ==
    /\ pc = "key_menu"
    /\ \E line \in MenuInputs : Lower(Strip(line)) = <<"x">> /\ inp' = line
    /\ AfterKeyMenu(mem, CanContinue(loc.active_api_key_nickname, Gem(mem).api_keys))
    /\ ret' = NoResult /\ jumps' = NoJumps /\ io' = io /\ Alone

\* any other choice
MenuInvalid ==
    /\ pc = "key_menu"
    /\ \E line \in MenuInputs :
        LET choice == Lower(Strip(line))
        IN  /\ choice # <<"1">> /\ choice # <<"x">>
            /\ choice \in {<<"2">>, <<"3">>} => Gem(mem).api_keys = << >>
            /\ choice = <<"c">> =>
                ~CanContinue(loc.active_api_key_nickname, Gem(mem).api_keys)
    /\ out' = {}
    /\ MenuFrame
    /\ UNCHANGED <<disk, mem, pc, stack, loc, exit>>

\* setup_config(jump_to="llm_management"), for a stored document
StartLlmManagement ==
    /\ pc = "idle"
    /\ inp' = NoText /\ ret' = NoResult /\ jumps' = NoJumps /\ io' = io /\ Alone
    /\ UNCHANGED disk
    /\ ~LoadIsNone(disk)
    /\ IF LoadFails(disk) THEN LoadError
       ELSE /\ out' = {}
            /\ mem' = disk.doc
            /\ pc' = "llm_menu"
            /\ exit' = -1
            /\ UNCHANGED <<stack, loc>>

\* "2. Switch Active LLM Service" -> _handle_switch_active_llm, to its prompt
LlmMenuSwitch ==
    /\ pc = "llm_menu"
    /\ MenuFrame
    /\ UNCHANGED disk
    /\ IF ConfiguredServices(mem) = << >>
       THEN EndHandler(stack, disk, {"no_services"})
       ELSE /\ out' = {}
            /\ pc' = "switch_prompt"
            /\ UNCHANGED <<mem, stack, loc, exit>>

\* 'b', or a choice that is none of '1', '2', 'b'
LlmMenuBack ==
    /\ pc = "llm_menu"
    /\ MenuFrame
    /\ UNCHANGED disk
    /\ \E valid \in BOOLEAN : out' = IF valid THEN {} ELSE {"invalid_choice"}
    /\ Finish(0)

\* "Select service to make active (number): "
SwitchChoose ==
    /\ pc = "switch_prompt"
    /\ ret' = NoResult /\ jumps' = NoJumps /\ io' = io /\ Alone
    /\ \E line \in NumberInputs :
        LET r == SwitchActiveLlm(mem, line)
        IN  /\ inp' = line
            /\ \E w \in (IF r.save THEN SaveConfig(disk, r.cfg)
                         ELSE {[ok |-> TRUE, disk |-> disk, out |-> {}]}) :
                    /\ disk' = w.disk
                    /\ EndHandler(stack, w.disk, r.out \cup w.out)

\* variant: only a typed 'y' confirms the deletion
ConfirmDeleteTyped(file, line) ==
    IF Lower(Strip(line)) = <<"y">>
    THEN {[disk |-> Absent, out |-> {"deleted"}, exit |-> 0]}
    ELSE {[disk |-> file, out |-> {"deletion_cancelled"}, exit |-> 0]}

\* delete_config_file from the answer on: the outcomes [disk, out, exit];
\* unlink() can fail only when the file system is faulty
ConfirmDelete(file, line) ==
    IF IsYes(Lower(Strip(line)))
    THEN {[disk |-> Absent, out |-> {"deleted"}, exit |-> 0]}
         \cup (IF io = "faulty"
               THEN {[disk |-> file, out |-> {"delete_error"}, exit |-> 1]}
               ELSE {})
    ELSE {[disk |-> file, out |-> {"deletion_cancelled"}, exit |-> 0]}

\* delete_config_file, to its confirmation prompt
StartDeleteConfig ==
    /\ pc = "idle"
    /\ MenuFrame
    /\ UNCHANGED disk
    /\ IF LoadIsNone(disk)
       THEN out' = {"nothing_to_delete"} /\ Finish(0)
       ELSE /\ out' = {}
            /\ pc' = "delete_confirm"
            /\ exit' = -1
            /\ UNCHANGED <<mem, stack, loc>>

\* "Are you sure you want to delete the configuration file ...? (Y/n): "
DeleteAnswer ==
    /\ pc = "delete_confirm"
    /\ ret' = NoResult /\ jumps' = NoJumps /\ io' = io /\ Alone
    /\ \E line \in YesNoInputs :
        /\ inp' = line
        /\ \E r \in ConfirmDelete(disk, line) :
            /\ disk' = r.disk
            /\ out' = r.out
            /\ Finish(r.exit)

----------------------------------------------------------------------------
\* Setting up a service (settings.py, ollama.py, gemini.py)

\* _configure_selected_service is called by the head of stk: the deep copy,
\* then the setup function of the service up to its first prompt.
\* _setup_gemini_service puts an empty profile into config_data first.
StartConfigure(stk, cfg, service_const) ==
    IF service_const = LLM_SERVICE_OLLAMA
    THEN /\ pc' = "ollama_address"
         /\ stack' = <<"configure">> \o stk
         /\ mem' = cfg
         /\ loc' = [LocNone EXCEPT !.service_const = service_const,
                                   !.original_config_copy = cfg]
         /\ exit' = -1
    ELSE LET with_profile ==
                IF HasService(cfg, LLM_SERVICE_GEMINI) THEN cfg
                ELSE WithService(cfg, LLM_SERVICE_GEMINI,
                                 GeminiProfile(<< >>, NoText, None))
         IN  /\ pc' = "key_menu"
             /\ stack' = <<"gemini_setup", "configure">> \o stk
             /\ mem' = with_profile
             /\ loc' = [LocNone EXCEPT
                    !.service_const = service_const,
                    !.original_config_copy = cfg,
                    !.impl = "gemini",
                    !.active_api_key_nickname =
                        Gem(with_profile).active_api_key_nickname]
             /\ exit' = -1

\* _select_service_to_configure returned None to the head of stack
NoServiceSelected(outs) ==
    IF Head(stack) = "initial"
    THEN out' = outs \cup {"initial_cancelled"} /\ Finish(0)
    ELSE EndHandler(Tail(stack), disk, outs)

\* "Enter your choice (number): " of _select_service_to_configure
SelectService ==
    /\ pc = "select_service"
    /\ MenuFrame
    /\ UNCHANGED disk
    /\ \E line \in NumberInputs :
        LET choice == Strip(line)
            n == Len(SUPPORTED_LLM_SERVICES)
        IN  IF \E i \in 1..n : NumberText(i) = choice
            THEN /\ out' = {}
                 /\ StartConfigure(stack, mem,
                        SUPPORTED_LLM_SERVICES[CHOOSE i \in 1..n : NumberText(i) = choice])
            ELSE IF choice = NumberText(n + 1)
            THEN NoServiceSelected({})
            ELSE /\ out' = {"invalid_choice"}
                 /\ UNCHANGED <<mem, pc, stack, loc, exit>>

\* setup_config without a configuration file: -s (jump_to "setup" here) or
\* a flag that jumps to a handler afterwards
StartInitialSetup ==
    /\ pc = "idle"
    /\ LoadIsNone(disk)
    /\ MenuFrame
    /\ UNCHANGED disk
    /\ \E jump_to \in {"setup", "model_change", "llm_management", "gemini_keys"} :
        stack' = <<"initial", jump_to>>
    /\ pc' = "select_service"
    /\ mem' = DefaultConfig
    /\ loc' = LocNone
    /\ out' = {}
    /\ exit' = -1

\* setup_config for -s with a configuration file: the settings menu
StartSettings ==
    /\ pc = "idle"
    /\ ~LoadIsNone(disk)
    /\ MenuFrame
    /\ UNCHANGED disk
    /\ ToSettingsMenu(disk, {})

\* existing_ollama_config.get("server_address", "")
CurrentOllamaAddress(cfg) ==
    IF HasService(cfg, LLM_SERVICE_OLLAMA)
    THEN cfg.llm_services[LLM_SERVICE_OLLAMA].server_address
    ELSE NoText

\* the model of a service's profile, None without a profile
CurrentModel(cfg, s) ==
    IF HasService(cfg, s) THEN cfg.llm_services[s].model ELSE None

\* ":" in server_address_input (a scheme holds a colon too)
HasPort(address) ==
    \E i \in 1..Len(address) : address[i] \in {":", "http://", "https://"}

\* "http://" is put in front unless the address starts with a scheme
WithScheme(address) ==
    IF address # << >> /\ address[1] \in {"http://", "https://"}
    THEN address
    ELSE <<"http://">> \o address

\* variant: a fetch that failed goes on to the model prompt
OllamaFetchGoesOn(temp_server_address) ==
    \E models \in FetchOutcomes :
        /\ pc' = "ollama_model"
        /\ loc' = [loc EXCEPT !.server_address = temp_server_address]
        /\ out' = IF models = "error" THEN {"fetch_failed"} ELSE {}
        /\ UNCHANGED <<mem, stack, exit>>

\* fetch_ollama_models(temp_server_address) and what it leads to
OllamaFetch(temp_server_address) ==
    \E models \in FetchOutcomes :
        /\ pc' = IF models = "models" THEN "ollama_model" ELSE "ollama_retry"
        /\ loc' = [loc EXCEPT !.server_address =
                        IF models = "models" THEN temp_server_address ELSE NoText]
        /\ out' = IF models = "error" THEN {"fetch_failed"} ELSE {}
        /\ UNCHANGED <<mem, stack, exit>>

\* "Enter OLLAMA Server IP/Hostname ...: "
OllamaAddress ==
    /\ pc = "ollama_address"
    /\ MenuFrame
    /\ UNCHANGED disk
    /\ \E line \in AddressInputs :
        LET typed == Strip(line)
            server_address_input ==
                IF typed = NoText THEN CurrentOllamaAddress(mem) ELSE typed
        IN  IF server_address_input = NoText
            THEN /\ out' = {"address_empty"}
                 /\ UNCHANGED <<mem, pc, stack, loc, exit>>
            ELSE IF HasPort(server_address_input)
            THEN OllamaFetch(WithScheme(server_address_input))
            ELSE /\ out' = {}
                 /\ pc' = "ollama_port"
                 /\ loc' = [loc EXCEPT !.server_address = server_address_input]
                 /\ UNCHANGED <<mem, stack, exit>>

\* "No port specified for ... Use default port 11434? (Y/n): "
OllamaPort ==
    /\ pc = "ollama_port"
    /\ MenuFrame
    /\ UNCHANGED disk
    /\ \E line \in YesNoInputs :
        IF IsYes(Lower(Strip(line)))
        THEN OllamaFetch(WithScheme(loc.server_address \o <<":", "11434">>))
        ELSE /\ out' = {"reenter_address"}
             /\ pc' = "ollama_address"
             /\ loc' = [loc EXCEPT !.server_address = NoText]
             /\ UNCHANGED <<mem, stack, exit>>

\* "Failed to connect or fetch models. Try again ...? (Y/n): " and
\* "Try again with a different address or check server? (Y/n ...): "
OllamaRetry ==
    /\ pc = "ollama_retry"
    /\ MenuFrame
    /\ UNCHANGED disk
    /\ \E line \in YesNoInputs :
        IF Lower(Strip(line)) = <<"n">>
        THEN SetupReturns(stack, mem, FALSE, {"setup_skipped"})
        ELSE /\ out' = {}
             /\ pc' = "ollama_address"
             /\ UNCHANGED <<mem, stack, loc, exit>>

\* variant: a number past the end of the list chooses the last model
ChosenModelClamped(line, current_model) ==
    LET choice == Strip(line)
    IN  IF IsInt(choice) /\ 0 <= IntOf(choice) - 1
        THEN ModelList[IF IntOf(choice) > Len(ModelList)
                       THEN Len(ModelList) ELSE IntOf(choice)]
        ELSE None

\* the model selection loops of both setup functions: the model chosen by
\* the line typed, None while the loop goes on
ChosenModel(line, current_model) ==
    LET choice == Strip(line)
        listed(m) == \E i \in 1..Len(ModelList) : ModelList[i] = m
    IN  IF choice = NoText /\ current_model # None /\ listed(current_model)
        THEN current_model
        ELSE IF IsInt(choice) /\ 0 <= IntOf(choice) - 1
                /\ IntOf(choice) - 1 < Len(ModelList)
        THEN ModelList[IntOf(choice)]
        ELSE None

\* "Enter the number of the Ollama model you want to use ...: ", then
\* config_data["llm_services"][LLM_SERVICE_OLLAMA] = ollama_config
OllamaModel ==
    /\ pc = "ollama_model"
    /\ ret' = NoResult /\ jumps' = NoJumps /\ io' = io /\ Alone
    /\ UNCHANGED disk
    /\ \E line \in ModelInputs :
        LET chosen_model == ChosenModel(line, CurrentModel(mem, LLM_SERVICE_OLLAMA))
        IN  /\ inp' = line
            /\ IF chosen_model = None
               THEN /\ out' = {"invalid_model"}
                    /\ UNCHANGED <<mem, pc, stack, loc, exit>>
               ELSE SetupReturns(stack,
                       WithService(mem, LLM_SERVICE_OLLAMA,
                                   OllamaProfile(loc.server_address, chosen_model)),
                       TRUE, {"service_configured"})

\* "Failed to fetch Gemini models. ... Try again? (Y/n): "
GeminiRetry ==
    /\ pc = "gemini_retry"
    /\ MenuFrame
    /\ UNCHANGED disk
    /\ \E line \in YesNoInputs :
        IF Lower(Strip(line)) = <<"n">>
        THEN SetupReturns(stack, mem, FALSE, {"setup_skipped"})
        ELSE GeminiFetch(stack, mem)

\* "Manage API keys again or skip Gemini setup? (M ... / S to skip): "
GeminiNoModels ==
    /\ pc = "gemini_no_models"
    /\ MenuFrame
    /\ UNCHANGED disk
    /\ \E line \in NoModelsInputs :
        IF Lower(Strip(line)) \in {<<"s">>, <<"m">>}
        THEN SetupReturns(stack, mem, FALSE, {"setup_skipped"})
        ELSE GeminiFetch(stack, mem)

\* "Enter the number of the Gemini model you want to use ...: ", then
\* gemini_config_part["model"] = chosen_model_full_name
GeminiModel ==
    /\ pc = "gemini_model"
    /\ ret' = NoResult /\ jumps' = NoJumps /\ io' = io /\ Alone
    /\ UNCHANGED disk
    /\ \E line \in ModelInputs :
        LET chosen_model == ChosenModel(line, CurrentModel(mem, LLM_SERVICE_GEMINI))
        IN  /\ inp' = line
            /\ IF chosen_model = None
               THEN /\ out' = {"invalid_model"}
                    /\ UNCHANGED <<mem, pc, stack, loc, exit>>
               ELSE SetupReturns(stack,
                       WithService(mem, LLM_SERVICE_GEMINI,
                                   [Gem(mem) EXCEPT !.model = chosen_model]),
                       TRUE, {"service_configured"})

\* Ctrl-C at a prompt of a setup function, below its try: it returns None
SetupInterrupt ==
    /\ pc \in {"ollama_address", "ollama_port", "ollama_retry", "ollama_model",
               "gemini_retry", "gemini_no_models", "gemini_model"}
    /\ MenuFrame
    /\ UNCHANGED disk
    /\ SetupReturns(stack, mem, FALSE, {"setup_cancelled"})

\* Ctrl-C at the prompt of _select_service_to_configure: it returns None
SelectInterrupt ==
    /\ pc = "select_service"
    /\ MenuFrame
    /\ UNCHANGED disk
    /\ NoServiceSelected({"selection_cancelled"})

\* variant: the first supported service becomes active, whichever was set up
ActivateFirstSupported(cfg, service_const) ==
    [cfg EXCEPT !.active_llm_service = SUPPORTED_LLM_SERVICES[1]]

\* _configure_selected_service: "Auto-activate if it's the first service or
\* only service configured"
ActivateConfigured(cfg, service_const) ==
    LET current_active == cfg.active_llm_service
    IN  IF /\ HasService(cfg, service_const)
           /\ \/ current_active = None
              \/ Len(ConfiguredServices(cfg)) = 1
              \/ current_active # service_const
        THEN [cfg EXCEPT
                !.previous_active_llm_service =
                    IF current_active # None /\ current_active # service_const
                    THEN current_active ELSE @,
                !.active_llm_service = service_const]
        ELSE cfg

\* _configure_selected_service after its setup function returned: activate,
\* save if anything changed (the result of save_config is not looked at),
\* and return to the caller
SetupDone ==
    /\ pc = "setup_done"
    /\ Head(stack) = "configure"
    /\ MenuFrame
    /\ LET cfg == IF loc.updated THEN ActivateConfigured(mem, loc.service_const)
                  ELSE mem
       IN  /\ mem' = cfg
           /\ IF loc.updated /\ cfg # loc.original_config_copy
              THEN \E w \in SaveConfig(disk, cfg) : disk' = w.disk /\ out' = w.out
              ELSE /\ disk' = disk
                   /\ out' = IF loc.updated THEN {"no_changes"} ELSE {"not_completed"}
    /\ pc' = "configure_done"
    /\ stack' = Tail(stack)
    /\ loc' = [loc EXCEPT !.updated = FALSE]
    /\ exit' = -1

\* _handle_gemini_key_management(cfg) called by stk
HandleGeminiKeyManagement(stk, cfg, outs) ==
    IF HasService(cfg, LLM_SERVICE_GEMINI)
    THEN out' = outs /\ EnterKeyMenuOn(stk, cfg, "gemini", "key_management")
    ELSE /\ out' = outs \cup {"gemini_not_configured"}
         /\ pc' = "gemini_not_configured"
         /\ stack' = stk
         /\ mem' = cfg
         /\ loc' = LocNone
         /\ exit' = -1

\* _handle_active_model_change(cfg) called by stk, to its prompt
HandleModelChange(stk, cfg, file, outs) ==
    LET active_service == cfg.active_llm_service
    IN  IF active_service = None
        THEN EndHandler(stk, file, outs \cup {"no_active_service"})
        ELSE IF ~HasService(cfg, active_service)
        THEN EndHandler(stk, file, outs \cup {"details_missing"})
        ELSE IF active_service = LLM_SERVICE_OLLAMA
                /\ cfg.llm_services[active_service].server_address = NoText
        THEN EndHandler(stk, file, outs \cup {"address_missing"})
        ELSE IF active_service = LLM_SERVICE_GEMINI
                /\ GetActiveGeminiKeyValue(Gem(cfg))[1] = NoText
        THEN EndHandler(stk, file, outs \cup {"no_active_key"})
        ELSE \E models \in FetchOutcomes :
                IF models # "models"
                THEN EndHandler(stk, file,
                        outs \cup {"no_models"}
                        \cup (IF models = "error" THEN {"fetch_failed"} ELSE {}))
                ELSE /\ out' = outs
                     /\ pc' = "model_prompt"
                     /\ stack' = stk
                     /\ mem' = cfg
                     /\ loc' = LocNone
                     /\ exit' = -1

\* setup_config, "Handle direct jumps from CLI flags", after the initial
\* setup; jump_to "setup" is -s, which goes on to the settings menu
EnterJump(jump_to, cfg, file, outs) ==
    CASE jump_to = "setup" -> ToSettingsMenu(file, outs \cup {"initial_complete"})
      [] jump_to = "llm_management" ->
            /\ out' = outs
            /\ pc' = "llm_menu"
            /\ stack' = << >>
            /\ mem' = cfg
            /\ loc' = LocNone
            /\ exit' = -1
      [] jump_to = "gemini_keys" -> HandleGeminiKeyManagement(<< >>, cfg, outs)
      [] OTHER -> HandleModelChange(<< >>, cfg, file, outs)

\* _configure_selected_service has returned to its caller, the head of stack
ConfigureDone ==
    /\ pc = "configure_done"
    /\ MenuFrame
    /\ UNCHANGED disk
    /\ CASE Head(stack) = "initial" ->
                IF LoadFails(disk) THEN out' = {"invalid_json"} /\ Finish(1)
                ELSE LET config_data == IF LoadIsNone(disk) THEN mem ELSE disk.doc
                     IN  IF ~HasService(config_data, loc.service_const)
                         THEN out' = {"initial_failed"} /\ Finish(1)
                         ELSE EnterJump(stack[2], config_data, disk, {})
         [] Head(stack) = "key_management" ->
                IF ~HasService(mem, LLM_SERVICE_GEMINI)
                THEN EndHandler(Tail(stack), disk, {})
                ELSE out' = {} /\ EnterKeyMenuOn(Tail(stack), mem, "gemini", "key_management")
         [] OTHER -> EndHandler(Tail(stack), disk, {})

\* setup_config(jump_to="gemini_keys") -> _handle_gemini_key_management,
\* for a stored document without a Gemini profile
StartGeminiKeysUnconfigured ==
    /\ pc = "idle"
    /\ disk.state = "ok"
    /\ ~HasService(disk.doc, LLM_SERVICE_GEMINI)
    /\ MenuFrame
    /\ UNCHANGED disk
    /\ HandleGeminiKeyManagement(<< >>, disk.doc, {})

\* "Configure Gemini service now? (Y/n): "
GeminiNotConfigured ==
    /\ pc = "gemini_not_configured"
    /\ ret' = NoResult /\ jumps' = NoJumps /\ io' = io /\ Alone
    /\ UNCHANGED disk
    /\ \E line \in YesNoInputs :
        /\ inp' = line
        /\ IF IsYes(Lower(Strip(line)))
           THEN out' = {} /\ StartConfigure(<<"key_management">> \o stack, mem,
                                            LLM_SERVICE_GEMINI)
           ELSE EndHandler(stack, disk, {})

\* setup_config(jump_to="model_change"), for a file that exists
StartModelChange ==
    /\ pc = "idle"
    /\ ~LoadIsNone(disk)
    /\ MenuFrame
    /\ UNCHANGED disk
    /\ IF LoadFails(disk) THEN out' = {"invalid_json"} /\ Finish(1)
       ELSE HandleModelChange(<< >>, disk.doc, disk, {})

\* variant: every number of the list selects its first model
ChangeModelFirst(cfg, line) ==
    LET choice == Lower(Strip(line))
        active_service == cfg.active_llm_service
        service_config == cfg.llm_services[active_service]
    IN  IF choice = <<"c">>
        THEN [cfg |-> cfg, save |-> FALSE, out |-> {"model_change_cancelled"}]
        ELSE IF ~IsInt(choice)
        THEN [cfg |-> cfg, save |-> FALSE, out |-> {"invalid_input"}]
        ELSE IF 0 <= IntOf(choice) - 1 /\ IntOf(choice) - 1 < Len(ModelList)
        THEN IF service_config.model # ModelList[1]
             THEN [cfg |-> WithService(cfg, active_service,
                              [service_config EXCEPT !.model = ModelList[1]]),
                   save |-> TRUE, out |-> {"model_set"}]
             ELSE [cfg |-> cfg, save |-> FALSE, out |-> {"model_already"}]
        ELSE [cfg |-> cfg, save |-> FALSE, out |-> {"invalid_selection"}]

\* _handle_active_model_change from the line typed on: [cfg, save, out]
ChangeModel(cfg, line) ==
    LET choice == Lower(Strip(line))
        idx == IntOf(choice) - 1
        active_service == cfg.active_llm_service
        service_config == cfg.llm_services[active_service]
    IN  IF choice = <<"c">>
        THEN [cfg |-> cfg, save |-> FALSE, out |-> {"model_change_cancelled"}]
        ELSE IF ~IsInt(choice)
        THEN [cfg |-> cfg, save |-> FALSE, out |-> {"invalid_input"}]
        ELSE IF 0 <= idx /\ idx < Len(ModelList)
        THEN IF service_config.model # ModelList[idx + 1]
             THEN [cfg |-> WithService(cfg, active_service,
                              [service_config EXCEPT !.model = ModelList[idx + 1]]),
                   save |-> TRUE, out |-> {"model_set"}]
             ELSE [cfg |-> cfg, save |-> FALSE, out |-> {"model_already"}]
        ELSE [cfg |-> cfg, save |-> FALSE, out |-> {"invalid_selection"}]

\* "Enter number of the new default model (or 'c' to cancel): "
ModelChoose ==
    /\ pc = "model_prompt"
    /\ ret' = NoResult /\ jumps' = NoJumps /\ io' = io /\ Alone
    /\ \E line \in ModelInputs :
        LET r == ChangeModel(mem, line)
        IN  /\ inp' = line
            /\ \E w \in (IF r.save THEN SaveConfig(disk, r.cfg)
                         ELSE {[ok |-> TRUE, disk |-> disk, out |-> {}]}) :
                   /\ disk' = w.disk
                   /\ EndHandler(stack, w.disk, r.out \cup w.out)

\* Ctrl-C at the prompt of _handle_switch_active_llm or of
\* _handle_active_model_change: the handler returns
HandlerInterrupt ==
    /\ pc \in {"switch_prompt", "model_prompt"}
    /\ MenuFrame
    /\ UNCHANGED disk
    /\ EndHandler(stack, disk, {"interrupted"})

\* "1. Configure/Reconfigure an LLM Service" of the -l menu
LlmMenuConfigure ==
    /\ pc = "llm_menu"
    /\ MenuFrame
    /\ UNCHANGED <<disk, mem, loc, exit>>
    /\ out' = {}
    /\ pc' = "select_service"
    /\ stack' = <<"llm_menu">> \o stack

\* the settings menu: the action of the line typed, "x" to leave, "" for
\* a choice that is none
SettingsAction(cfg, line) ==
    LET choice == Lower(Strip(line))
        gemini_configured == HasService(cfg, LLM_SERVICE_GEMINI)
        menu_options ==
            <<"manage_services", "switch_active">>
            \o (IF gemini_configured THEN <<"gemini_keys">> ELSE << >>)
            \o <<"model_change", "show_config", "delete_config">>
    IN  IF choice = <<"x">> THEN "x"
        ELSE IF \E i \in 1..Len(menu_options) : NumberText(i) = choice
        THEN menu_options[CHOOSE i \in 1..Len(menu_options) : NumberText(i) = choice]
        ELSE ""

\* "Enter your choice: " of the settings menu, up to the next prompt
SettingsChoose ==
    /\ pc = "settings_menu"
    /\ \E line \in SettingsInputs :
        LET action_to_take == SettingsAction(mem, line)
        IN  CASE action_to_take = "x" ->
                    /\ MenuFrame /\ UNCHANGED disk
                    /\ out' = {"exiting_settings"} /\ Finish(0)
              [] action_to_take = "manage_services" ->
                    /\ MenuFrame /\ UNCHANGED <<disk, mem, loc, exit>>
                    /\ out' = {}
                    /\ pc' = "select_service"
                    /\ stack' = <<"manage_services">> \o stack
              [] action_to_take = "switch_active" ->
                    /\ MenuFrame /\ UNCHANGED disk
                    /\ IF ConfiguredServices(mem) = << >>
                       THEN ToSettingsMenu(disk, {"no_services"})
                       ELSE /\ out' = {}
                            /\ pc' = "switch_prompt"
                            /\ UNCHANGED <<mem, stack, loc, exit>>
              [] action_to_take = "gemini_keys" ->
                    /\ MenuFrame /\ UNCHANGED disk
                    /\ HandleGeminiKeyManagement(stack, mem, {})
              [] action_to_take = "model_change" ->
                    /\ MenuFrame /\ UNCHANGED disk
                    /\ HandleModelChange(stack, mem, disk, {})
              [] action_to_take = "show_config" -> ShowConfiguration
              [] action_to_take = "delete_config" ->
                    /\ MenuFrame /\ UNCHANGED disk
                    /\ IF LoadIsNone(disk)
                       THEN out' = {"nothing_to_delete"} /\ Finish(0)
                       ELSE /\ out' = {}
                            /\ pc' = "delete_confirm"
                            /\ UNCHANGED <<mem, stack, loc, exit>>
              [] OTHER ->
                    /\ MenuFrame /\ UNCHANGED disk
                    /\ ToSettingsMenu(disk, {"invalid_choice"})

----------------------------------------------------------------------------
\* The default action of main.py: a query

\* What the server does with the query: a response that is printed, a
\* request that fails, a response that cannot be used
SendOutcomes == {"response_printed", "network_error", "malformed_response"}

\* variant: the credential of the active service is checked before its model
ResolveDispatchKeyFirst(cfg) ==
    LET active_service_name == cfg.active_llm_service
        service_config == cfg.llm_services[active_service_name]
    IN  IF active_service_name = None \/ ~HasService(cfg, active_service_name)
        THEN "no_active_service"
        ELSE IF active_service_name = LLM_SERVICE_GEMINI
                /\ GetActiveGeminiKeyValue(service_config)[1] = NoText
        THEN "no_active_key"
        ELSE IF service_config.model = None
        THEN "no_model"
        ELSE IF active_service_name = LLM_SERVICE_OLLAMA
                /\ service_config.server_address = NoText
        THEN "no_address"
        ELSE "send"

\* main(), from "active_service_name = ..." on: the error reported, or
\* "send" when a send function is called
ResolveDispatch(cfg) ==
    LET active_service_name == cfg.active_llm_service
        service_config == cfg.llm_services[active_service_name]
    IN  IF active_service_name = None \/ ~HasService(cfg, active_service_name)
        THEN "no_active_service"
        ELSE IF service_config.model = None
        THEN "no_model"
        ELSE IF active_service_name = LLM_SERVICE_OLLAMA
        THEN IF service_config.server_address = NoText THEN "no_address" ELSE "send"
        ELSE IF GetActiveGeminiKeyValue(service_config)[1] = NoText
        THEN "no_active_key"
        ELSE "send"

\* main() with a query and an active service: sys.exit(1) after the error;
\* send_ollama_query and send_gemini_query print what went wrong and
\* return, and main() returns after them
Dispatch(cfg, outs) ==
    IF ResolveDispatch(cfg) # "send"
    THEN out' = outs \cup {ResolveDispatch(cfg)} /\ Finish(1)
    ELSE \E outcome \in SendOutcomes :
            out' = outs \cup {"query_sent", outcome} /\ Finish(0)

\* main() after setup_config returned cfg (returned: not None)
AfterSetup(cfg, returned, user_query, outs) ==
    IF ~returned \/ cfg.active_llm_service = None
    THEN out' = outs \cup {"setup_incomplete"} /\ Finish(1)
    ELSE IF ~user_query
    THEN out' = outs \cup {"setup_complete"} /\ Finish(0)
    ELSE Dispatch(cfg, outs)

\* main() without an action flag, up to the first prompt or the end
StartQuery ==
    /\ pc = "idle"
    /\ MenuFrame
    /\ UNCHANGED disk
    /\ \E user_query \in BOOLEAN :
        IF LoadFails(disk) THEN out' = {"invalid_json"} /\ Finish(1)
        ELSE IF LoadIsNone(disk) \/ disk.doc.active_llm_service = None
        THEN /\ out' = {"running_setup"}
             /\ pc' = "legacy_select"
             /\ stack' = <<"legacy_setup", IF user_query THEN "query" ELSE "no_query">>
             /\ mem' = IF LoadIsNone(disk) THEN DefaultConfig ELSE disk.doc
             /\ loc' = LocNone
             /\ exit' = -1
        ELSE IF ~user_query
        THEN out' = {"query_required"} /\ Finish(1)
        ELSE Dispatch(disk.doc, {})

\* main.py setup_config: "Enter your choice (number): ", then the setup
\* function of the service up to its first prompt
LegacySelect ==
    /\ pc = "legacy_select"
    /\ MenuFrame
    /\ UNCHANGED disk
    /\ \E line \in NumberInputs :
        LET choice == Strip(line)
            with_profile ==
                IF HasService(mem, LLM_SERVICE_GEMINI) THEN mem
                ELSE WithService(mem, LLM_SERVICE_GEMINI,
                                 GeminiProfile(<< >>, NoText, None))
        IN  IF choice = <<"1">>
            THEN /\ out' = {}
                 /\ pc' = "ollama_address"
                 /\ loc' = [LocNone EXCEPT !.service_const = LLM_SERVICE_OLLAMA]
                 /\ UNCHANGED <<mem, stack, exit>>
            ELSE IF choice = <<"2">>
            THEN /\ out' = {}
                 /\ pc' = "key_menu"
                 /\ stack' = <<"gemini_setup">> \o stack
                 /\ mem' = with_profile
                 /\ loc' = [LocNone EXCEPT
                        !.service_const = LLM_SERVICE_GEMINI,
                        !.impl = "main",
                        !.active_api_key_nickname =
                            Gem(with_profile).active_api_key_nickname]
                 /\ exit' = exit
            ELSE /\ out' = {"invalid_choice"}
                 /\ UNCHANGED <<mem, pc, stack, loc, exit>>

\* Ctrl-C at that prompt: setup_config returns config_data as it is
LegacySelectInterrupt ==
    /\ pc = "legacy_select"
    /\ MenuFrame
    /\ UNCHANGED disk
    /\ AfterSetup(mem, TRUE, stack[Len(stack)] = "query", {"setup_cancelled"})

\* main.py setup_config: the first service, or any while none is active
LegacyActivate(cfg, service_to_setup) ==
    IF /\ HasService(cfg, service_to_setup)
       /\ \/ cfg.active_llm_service = None
          \/ Len(ConfiguredServices(cfg)) = 1
    THEN [cfg EXCEPT !.active_llm_service = service_to_setup]
    ELSE cfg

\* main.py setup_config after its setup function returned, and main() after it
LegacySetupDone ==
    /\ pc = "setup_done"
    /\ Head(stack) = "legacy_setup"
    /\ MenuFrame
    /\ IF ~loc.updated
       THEN /\ disk' = disk
            /\ AfterSetup(mem, TRUE, stack[Len(stack)] = "query", {"not_completed"})
       ELSE \E w \in SaveConfig(disk, LegacyActivate(mem, loc.service_const)) :
                /\ disk' = w.disk
                /\ AfterSetup(LegacyActivate(mem, loc.service_const), w.ok,
                              stack[Len(stack)] = "query", w.out)

\* the prompts at which no handler catches KeyboardInterrupt before main
\* does, and that of delete_config_file, which ends the run itself
ExitOnInterrupt ==
    {"key_menu", "add_nickname", "add_key", "add_make_active", "llm_menu",
     "settings_menu", "gemini_not_configured", "delete_confirm"}

\* Ctrl-C at such a prompt: KeyboardInterrupt ends the run with status 0
Interrupt ==
    /\ pc \in ExitOnInterrupt
    /\ out' = {"interrupted"}
    /\ MenuFrame
    /\ UNCHANGED disk
    /\ Finish(0)

Next ==
    \/ JumpToPreviousLlm
    \/ ShowActiveConfiguration
    \/ StartGeminiKeyManagement
    \/ StartSetApiKey
    \/ MenuAdd
    \/ AddNickname
    \/ AddKeyValue
    \/ AddMakeActive
    \/ MenuSetActive
    \/ MenuRemove
    \/ MenuContinue
    \/ MenuCancel
    \/ MenuInvalid
    \/ StartLlmManagement
    \/ LlmMenuSwitch
    \/ LlmMenuBack
    \/ SwitchChoose
    \/ StartDeleteConfig
    \/ DeleteAnswer
    \/ StartInitialSetup
    \/ StartSettings
    \/ SettingsChoose
    \/ SelectService
    \/ OllamaAddress
    \/ OllamaPort
    \/ OllamaRetry
    \/ OllamaModel
    \/ GeminiRetry
    \/ GeminiNoModels
    \/ GeminiModel
    \/ SetupDone
    \/ ConfigureDone
    \/ StartGeminiKeysUnconfigured
    \/ GeminiNotConfigured
    \/ LlmMenuConfigure
    \/ StartModelChange
    \/ ModelChoose
    \/ SetupInterrupt
    \/ SelectInterrupt
    \/ HandlerInterrupt
    \/ StartQuery
    \/ LegacySelect
    \/ LegacySelectInterrupt
    \/ LegacySetupDone
    \/ Interrupt

Spec == Init /\ [][Next]_vars

\* the credential flows: the key menu from both of its callers
NextKeys ==
    \/ ShowActiveConfiguration
    \/ StartGeminiKeyManagement
    \/ StartSetApiKey
    \/ MenuAdd
    \/ AddNickname
    \/ AddKeyValue
    \/ AddMakeActive
    \/ MenuSetActive
    \/ MenuRemove
    \/ MenuContinue
    \/ MenuCancel
    \/ MenuInvalid
    \/ Interrupt

SpecKeys == InitKeys /\ [][NextKeys]_vars

\* the key menu on files whose active nickname is unset or names a key
InitCredentials ==
    /\ InitKeys
    /\ (disk.state = "ok" /\ HasService(disk.doc, LLM_SERVICE_GEMINI)) =>
            LET profile == Gem(disk.doc)
            IN  \/ profile.active_api_key_nickname = NoText
                \/ \E i \in 1..Len(profile.api_keys) :
                       profile.api_keys[i].nickname = profile.active_api_key_nickname

SpecCredentials == InitCredentials /\ [][NextKeys]_vars

\* the service flows: switching and jumping
NextServices ==
    \/ JumpToPreviousLlm
    \/ ShowActiveConfiguration
    \/ StartLlmManagement
    \/ LlmMenuSwitch
    \/ LlmMenuBack
    \/ SwitchChoose
    \/ StartDeleteConfig
    \/ DeleteAnswer
    \/ HandlerInterrupt
    \/ Interrupt

SpecServices == InitServices /\ [][NextServices]_vars

\* the editor from a first run on: no file, and every operation of
\* setup_config; one nickname at the nickname prompt
InitSetup == disk = Absent /\ NoProcess

AddNicknameSetup == AddNicknameFrom(SetupNickInputs)

NextSetup ==
    \/ JumpToPreviousLlm
    \/ ShowActiveConfiguration
    \/ StartInitialSetup
    \/ StartSettings
    \/ SettingsChoose
    \/ SelectService
    \/ OllamaAddress
    \/ OllamaPort
    \/ OllamaRetry
    \/ OllamaModel
    \/ GeminiRetry
    \/ GeminiNoModels
    \/ GeminiModel
    \/ SetupDone
    \/ ConfigureDone
    \/ StartGeminiKeyManagement
    \/ StartGeminiKeysUnconfigured
    \/ GeminiNotConfigured
    \/ MenuAdd
    \/ AddNicknameSetup
    \/ AddKeyValue
    \/ AddMakeActive
    \/ MenuSetActive
    \/ MenuRemove
    \/ MenuContinue
    \/ MenuCancel
    \/ MenuInvalid
    \/ StartLlmManagement
    \/ LlmMenuConfigure
    \/ LlmMenuSwitch
    \/ LlmMenuBack
    \/ SwitchChoose
    \/ StartModelChange
    \/ ModelChoose
    \/ StartDeleteConfig
    \/ DeleteAnswer
    \/ SetupInterrupt
    \/ SelectInterrupt
    \/ HandlerInterrupt
    \/ Interrupt

SpecSetup == InitSetup /\ [][NextSetup]_vars

\* a query: documents with every defect of the active service, written by
\* an earlier version or by hand
OllamaProfiles ==
    {OllamaProfile(address, model) :
        address \in {NoText, <<"http://", "h", ":", "11434">>},
        model \in {None, "m1"}}

GeminiProfiles ==
    {GeminiProfile(keys, active, model) :
        keys \in {<< >>, <<[nickname |-> <<"a">>, key |-> <<"k">>]>>},
        active \in {NoText, <<"a">>, <<"b">>},
        model \in {None, "m1"}}

DispatchDocs ==
    {[active_llm_service |-> a,
      previous_active_llm_service |-> None,
      llm_services |-> services] :
        a \in Services \cup {None},
        services \in
            {<< >>}
            \cup {[s \in {LLM_SERVICE_OLLAMA} |-> o] : o \in OllamaProfiles}
            \cup {[s \in {LLM_SERVICE_GEMINI} |-> g] : g \in GeminiProfiles}
            \cup {[s \in Services |->
                        IF s = LLM_SERVICE_OLLAMA THEN OllamaSample ELSE g] :
                    g \in GeminiProfiles}}

DispatchFiles == {Absent, Corrupt} \cup {Stored(d) : d \in DispatchDocs}

InitDispatch == disk \in DispatchFiles /\ NoProcess

NextDispatch ==
    \/ StartQuery
    \/ LegacySelect
    \/ LegacySelectInterrupt
    \/ LegacySetupDone
    \/ OllamaAddress
    \/ OllamaPort
    \/ OllamaRetry
    \/ OllamaModel
    \/ GeminiRetry
    \/ GeminiNoModels
    \/ GeminiModel
    \/ SetupInterrupt
    \/ MenuAdd
    \/ AddNicknameSetup
    \/ AddKeyValue
    \/ MenuSetActive
    \/ MenuRemove
    \/ MenuContinue
    \/ MenuCancel
    \/ MenuInvalid
    \/ Interrupt

SpecDispatch == InitDispatch /\ [][NextDispatch]_vars

\* the same editor on a file system where open() or json.dump() may raise
\* in save_config, and unlink() in delete_config_file
InitIO ==
    /\ disk = Absent
    /\ mem = DefaultConfig
    /\ pc = "idle"
    /\ stack = << >>
    /\ loc = LocNone
    /\ inp = NoText
    /\ out = {}
    /\ ret = NoResult
    /\ exit = -1
    /\ jumps = NoJumps
    /\ io = "faulty"
    /\ Quiet

SpecIO == InitIO /\ [][NextSetup]_vars

\* every operation that calls a server: the editor and the query action
NextNetwork ==
    \/ NextSetup
    \/ StartQuery
    \/ LegacySelect
    \/ LegacySelectInterrupt
    \/ LegacySetupDone

SpecNetwork == InitSetup /\ [][NextNetwork]_vars

----------------------------------------------------------------------------
\* The send functions and the progress animation (ollama.py, gemini.py,
\* utils.py): two threads that write to one terminal

\* len(sending_message), the width of the animation
MessageLength == 3

\* what requests.post and the calls after it end with: a response of the
\* expected form, one of another form, an exception of requests or of the
\* JSON decoder, any other Exception, Ctrl-C
PostOutcomes == {"response", "malformed", "request_error", "other_error", "interrupt"}

\* the exception is caught by an except clause of the send function:
\* send_ollama_query catches Exception, send_gemini_query only
\* RequestException and JSONDecodeError
Caught(service, outcome) ==
    \/ outcome = "request_error"
    \/ outcome = "other_error" /\ service = LLM_SERVICE_OLLAMA

Token(text, at) == [text |-> text, at |-> at]

\* print(text): the text goes to the cursor and a new line begins
PrintLine(term, text) ==
    IF term = << >> THEN << <<Token(text, 0)>>, << >> >>
    ELSE [term EXCEPT ![Len(term)] = Append(@, Token(text, 0))] \o << << >> >>

\* sys.stdout.write("\r" + text): the text overwrites the line the cursor
\* is on, from its first column
Carriage(term, line) ==
    IF term = << >> THEN <<line>>
    ELSE [term EXCEPT ![Len(term)] = line]

\* display_message(sending_message), stop_event = threading.Event(),
\* animation_thread.start()
CallSend ==
    /\ sender.pc = "none"
    /\ \E service \in {LLM_SERVICE_OLLAMA, LLM_SERVICE_GEMINI} :
          sender' = [pc |-> "post", service |-> service, outcome |-> "none"]
    /\ stop_event' = FALSE
    /\ animation_thread' = [pc |-> "initial_sleep", position |-> 0, direction |-> 1]
    /\ stdout' = PrintLine(<< >>, "sending")
    /\ UNCHANGED <<disk, mem, pc, stack, loc, inp, out, ret, exit, jumps, io, peers>>

\* requests.post(...), raise_for_status(), json(): the blocking call ends
Post ==
    /\ sender.pc = "post"
    /\ \E outcome \in PostOutcomes :
          sender' = [sender EXCEPT !.pc = "set_stop", !.outcome = outcome]
    /\ UNCHANGED <<disk, mem, pc, stack, loc, inp, out, ret, exit, jumps, io,
                   stop_event, animation_thread, stdout, peers>>

\* finally: stop_event.set()
SetStop ==
    /\ sender.pc = "set_stop"
    /\ stop_event' = TRUE
    /\ sender' = [sender EXCEPT !.pc = "join"]
    /\ UNCHANGED <<disk, mem, pc, stack, loc, inp, out, ret, exit, jumps, io,
                   animation_thread, stdout, peers>>

\* animation_thread.join(timeout=0.5) returns because the thread ended
JoinReturns ==
    /\ sender.pc = "join"
    /\ animation_thread.pc = "done"
    /\ sender' = [sender EXCEPT !.pc = "clear"]
    /\ UNCHANGED <<disk, mem, pc, stack, loc, inp, out, ret, exit, jumps, io,
                   stop_event, animation_thread, stdout, peers>>

\* animation_thread.join(timeout=0.5) returns because the half second is
\* over while the thread has not ended
JoinTimesOut ==
    /\ sender.pc = "join"
    /\ animation_thread.pc # "done"
    /\ sender' = [sender EXCEPT !.pc = "clear"]
    /\ UNCHANGED <<disk, mem, pc, stack, loc, inp, out, ret, exit, jumps, io,
                   stop_event, animation_thread, stdout, peers>>

\* sys.stdout.write("\r" + " " * message_len_for_animation + "\r"); an
\* exception no clause caught leaves the function here
ClearLine ==
    /\ sender.pc = "clear"
    /\ stdout' = Carriage(stdout, << >>)
    /\ sender' = [sender EXCEPT !.pc =
            IF sender.outcome \in {"response", "malformed"}
               \/ Caught(sender.service, sender.outcome)
            THEN "print" ELSE "raised"]
    /\ UNCHANGED <<disk, mem, pc, stack, loc, inp, out, ret, exit, jumps, io,
                   stop_event, animation_thread, peers>>

\* the first line of the result: "--- ... Response ---", or the one line
\* of an error
PrintResult ==
    /\ sender.pc = "print"
    /\ IF sender.outcome = "response"
       THEN /\ stdout' = PrintLine(stdout, "header")
            /\ sender' = [sender EXCEPT !.pc = "body"]
       ELSE /\ stdout' = PrintLine(stdout, "error")
            /\ sender' = [sender EXCEPT !.pc = "returned"]
    /\ UNCHANGED <<disk, mem, pc, stack, loc, inp, out, ret, exit, jumps, io,
                   stop_event, animation_thread, peers>>

\* the text of the response
PrintBody ==
    /\ sender.pc = "body"
    /\ stdout' = PrintLine(stdout, "body")
    /\ sender' = [sender EXCEPT !.pc = "footer"]
    /\ UNCHANGED <<disk, mem, pc, stack, loc, inp, out, ret, exit, jumps, io,
                   stop_event, animation_thread, peers>>

\* display_message("-----------------------")
PrintFooter ==
    /\ sender.pc = "footer"
    /\ stdout' = PrintLine(stdout, "footer")
    /\ sender' = [sender EXCEPT !.pc = "returned"]
    /\ UNCHANGED <<disk, mem, pc, stack, loc, inp, out, ret, exit, jumps, io,
                   stop_event, animation_thread, peers>>

\* _animate_progress: time.sleep(0.15) before the loop
AnimateInitialSleep ==
    /\ animation_thread.pc = "initial_sleep"
    /\ animation_thread' = [animation_thread EXCEPT !.pc = "check"]
    /\ UNCHANGED <<disk, mem, pc, stack, loc, inp, out, ret, exit, jumps, io,
                   sender, stop_event, stdout, peers>>

\* while not stop_event.is_set():
AnimateCheck ==
    /\ animation_thread.pc = "check"
    /\ animation_thread' = [animation_thread EXCEPT !.pc =
            IF stop_event THEN "done" ELSE "write"]
    /\ UNCHANGED <<disk, mem, pc, stack, loc, inp, out, ret, exit, jumps, io,
                   sender, stop_event, stdout, peers>>

\* position and direction after a frame
Advance(position, direction) ==
    LET moved == position + direction
    IN  IF moved >= MessageLength - 1 \/ moved <= 0
        THEN [position |-> IF moved < 0 THEN 0
                           ELSE IF moved > MessageLength - 1 THEN MessageLength - 1
                           ELSE moved,
              direction |-> 0 - direction]
        ELSE [position |-> moved, direction |-> direction]

\* sys.stdout.write(f"\r{output_str}"), then the next position
AnimateWrite ==
    /\ animation_thread.pc = "write"
    /\ stdout' = Carriage(stdout, <<Token("frame", animation_thread.position)>>)
    /\ LET a == Advance(animation_thread.position, animation_thread.direction)
       IN  animation_thread' = [pc |-> "sleep", position |-> a.position,
                                direction |-> a.direction]
    /\ UNCHANGED <<disk, mem, pc, stack, loc, inp, out, ret, exit, jumps, io,
                   sender, stop_event, peers>>

\* time.sleep(0.15) at the end of the loop body
AnimateSleep ==
    /\ animation_thread.pc = "sleep"
    /\ animation_thread' = [animation_thread EXCEPT !.pc = "check"]
    /\ UNCHANGED <<disk, mem, pc, stack, loc, inp, out, ret, exit, jumps, io,
                   sender, stop_event, stdout, peers>>

NextAnimation ==
    \/ CallSend
    \/ Post
    \/ SetStop
    \/ JoinReturns
    \/ JoinTimesOut
    \/ ClearLine
    \/ PrintResult
    \/ PrintBody
    \/ PrintFooter
    \/ AnimateInitialSleep
    \/ AnimateCheck
    \/ AnimateWrite
    \/ AnimateSleep

SpecAnimation == InitSetup /\ [][NextAnimation]_vars

----------------------------------------------------------------------------
\* Invocations that run side by side on one configuration file
\* (settings.py): each loads the file, changes config_data and saves

Invocations == {1, 2}

\* what an invocation does: `-j` (jump_to_previous_llm) or `-m`
\* (change_active_model_config) with the number the user types
Kinds == {"jump", "model"}

\* documents of an installation with both services configured
PeerDocs ==
    {[active_llm_service |-> a,
      previous_active_llm_service |-> p,
      llm_services |-> [s \in Services |-> SampleProfile(s)]] :
        a \in Services, p \in (Services \cup {None})}

\* the length of a value in the file written by json.dump
ValueSize(v) == IF v = None THEN 4 ELSE Len(v) + 2

\* the length of the file json.dump writes, up to the parts that are the
\* same in all documents of one installation (keys, addresses, secrets)
FileSize(cfg) ==
    LET RECURSIVE Models(_)
        Models(S) ==
            IF S = {} THEN 0
            ELSE LET s == CHOOSE t \in S : TRUE
                 IN  ValueSize(cfg.llm_services[s].model) + Models(S \ {s})
    IN  ValueSize(cfg.active_llm_service)
        + ValueSize(cfg.previous_active_llm_service)
        + Models(DOMAIN cfg.llm_services)

\* the file after open(config_file_path, 'w'): empty, which json.load
\* rejects like any other invalid text
Truncated == Corrupt

\* the file after json.dump and close: the text goes to the start of the
\* file, over what another invocation wrote since this one opened it; a
\* longer text of the other keeps its end
Written(file, cfg) ==
    IF file.state = "ok" /\ FileSize(file.doc) > FileSize(cfg)
    THEN Corrupt
    ELSE Stored(cfg)

NoPeer == [pc |-> "start", kind |-> "jump", config_data |-> DefaultConfig]

InitPeers ==
    /\ disk \in {Stored(d) : d \in PeerDocs}
    /\ mem = DefaultConfig
    /\ pc = "idle"
    /\ stack = << >>
    /\ loc = LocNone
    /\ inp = NoText
    /\ out = {}
    /\ ret = NoResult
    /\ exit = -1
    /\ jumps = NoJumps
    /\ io = "ok"
    /\ sender = NoSender
    /\ stop_event = FALSE
    /\ animation_thread = NoThread
    /\ stdout = << >>
    /\ peers \in [Invocations -> {[NoPeer EXCEPT !.kind = k] : k \in Kinds}]

PeerFrame ==
    UNCHANGED <<mem, pc, stack, loc, inp, out, ret, exit, jumps, io,
                sender, stop_event, animation_thread, stdout>>

\* load_config: sys.exit(1) on a file that is no JSON
PeerLoad(i) ==
    /\ peers[i].pc = "start"
    /\ peers' = [peers EXCEPT ![i] =
            IF LoadFails(disk) THEN [@ EXCEPT !.pc = "load_error"]
            ELSE [@ EXCEPT !.pc = "loaded", !.config_data = disk.doc]]
    /\ UNCHANGED disk
    /\ PeerFrame

\* the change in memory: the jump, or the model chosen at the prompt of
\* _handle_active_model_change; the invocation ends here when there is
\* nothing to save
PeerMutate(i) ==
    /\ peers[i].pc = "loaded"
    /\ \E line \in {<<"1">>, <<"2">>} :
        LET r == IF peers[i].kind = "jump" THEN JumpToPrevious(peers[i].config_data)
                 ELSE ChangeModel(peers[i].config_data, line)
        IN  peers' = [peers EXCEPT ![i] =
                [@ EXCEPT !.pc = IF r.save THEN "save" ELSE "exited",
                          !.config_data = r.cfg]]
    /\ UNCHANGED disk
    /\ PeerFrame

\* save_config: open(config_file_path, 'w')
PeerOpen(i) ==
    /\ peers[i].pc = "save"
    /\ disk' = Truncated
    /\ peers' = [peers EXCEPT ![i] = [@ EXCEPT !.pc = "opened"]]
    /\ PeerFrame

\* save_config: json.dump and the end of the with block
PeerWrite(i) ==
    /\ peers[i].pc = "opened"
    /\ disk' = Written(disk, peers[i].config_data)
    /\ peers' = [peers EXCEPT ![i] = [@ EXCEPT !.pc = "saved"]]
    /\ PeerFrame

NextPeers ==
    \/ \E i \in Invocations : PeerLoad(i)
    \/ \E i \in Invocations : PeerMutate(i)
    \/ \E i \in Invocations : PeerOpen(i)
    \/ \E i \in Invocations : PeerWrite(i)

SpecPeers == InitPeers /\ [][NextPeers]_vars

----------------------------------------------------------------------------
\* Properties of the key menu (SpecKeys)

\* the key list holds an entry with this nickname (exact comparison)
Names(keys_list, nickname) ==
    \E i \in 1..Len(keys_list) : keys_list[i].nickname = nickname

\* both copies of the active nickname, after the step, are this one
ActiveBecomes(nickname) ==
    /\ Gem(mem').active_api_key_nickname = nickname
    /\ loc'.active_api_key_nickname = nickname

ActiveKept ==
    /\ Gem(mem').active_api_key_nickname = Gem(mem).active_api_key_nickname
    /\ loc'.active_api_key_nickname = loc.active_api_key_nickname

\* C1: in the key menu, when the step that removes the active entry leaves
\* exactly one entry, that entry is the active one right after the step: both
\* copies of the active nickname name it and _get_active_gemini_key_value
\* returns its key and its nickname.
C1_RemovedActivePromotesSole ==
    [][(/\ pc = "key_menu" /\ pc' = "key_menu"
        /\ Len(Gem(mem').api_keys) = 1
        /\ \E i \in 1..Len(Gem(mem).api_keys) :
            /\ Gem(mem').api_keys = Pop(Gem(mem).api_keys, i)
            /\ Gem(mem).api_keys[i].nickname = loc.active_api_key_nickname)
       => LET sole == Gem(mem').api_keys[1]
          IN  /\ ActiveBecomes(sole.nickname)
              /\ GetActiveGeminiKeyValue(Gem(mem')) = <<sole.key, sole.nickname>>]_vars

\* a menu that started with two keys, the first active, now holds the second
\* alone, and it is active
C1_Witness ==
    /\ pc = "key_menu"
    /\ Len(loc.original_keys_config.api_keys) = 2
    /\ loc.original_keys_config.active_api_key_nickname =
            loc.original_keys_config.api_keys[1].nickname
    /\ Gem(mem).api_keys = <<loc.original_keys_config.api_keys[2]>>
    /\ Gem(mem).active_api_key_nickname = Gem(mem).api_keys[1].nickname
    /\ Strip(inp) = <<"1">> /\ out = {}

\* C2: a nickname line is rejected as a duplicate exactly when its trimmed
\* text is the nickname of an entry (compared exactly), and as empty exactly
\* when it is blank; a blank key line is rejected as empty; a rejected line
\* changes neither the key list nor the active nickname nor the file, and an
\* entry is appended only under a new, non-blank nickname with a non-blank key.
C2_RejectedAddChangesNothing ==
    [][/\ (pc = "add_nickname" /\ pc' = "add_nickname")
            => /\ mem' = mem /\ loc' = loc /\ disk' = disk
               /\ Names(Gem(mem).api_keys, Strip(inp')) <=> out' = {"nickname_exists"}
               /\ Strip(inp') = NoText <=> out' = {"nickname_empty"}
       /\ (pc = "add_nickname" /\ pc' = "add_key")
            => /\ mem' = mem /\ disk' = disk
               /\ loc'.new_nickname # NoText
               /\ ~Names(Gem(mem).api_keys, loc'.new_nickname)
       /\ (pc = "add_key" /\ pc' # "idle" /\ mem' = mem)
            => /\ out' = {"key_empty"}
               /\ Strip(inp') = NoText
               /\ loc'.active_api_key_nickname = loc.active_api_key_nickname
               /\ disk' = disk
       /\ (pc = "add_key" /\ pc' # "idle" /\ mem' # mem)
            => LET new == Gem(mem').api_keys[Len(Gem(mem').api_keys)]
               IN  /\ Gem(mem').api_keys = Append(Gem(mem).api_keys, new)
                   /\ new.nickname = loc.new_nickname
                   /\ new.key # NoText]_vars

\* a nickname that differs from its stored form only by surrounding blanks
\* has just been rejected as a duplicate
C2_Witness ==
    /\ pc = "add_nickname"
    /\ out = {"nickname_exists"}
    /\ inp # Strip(inp)
    /\ Names(Gem(mem).api_keys, Strip(inp))
    /\ Gem(mem) = loc.original_keys_config

\* the step that completes the first add to an empty key set (no entries, no
\* active nickname): the answer to the offer in gemini.py, the append in main.py
FirstAddDone ==
    /\ loc.active_api_key_nickname = NoText
    /\ \/ /\ pc = "add_make_active" /\ pc' = "key_menu"
          /\ Len(Gem(mem).api_keys) = 1
       \/ /\ pc = "add_key" /\ pc' = "key_menu" /\ mem' # mem
          /\ Gem(mem).api_keys = << >>

\* C3: the first add to an empty key set, under nickname n with key s, leaves
\* _get_active_gemini_key_value returning (s, n) in main.py, and in gemini.py
\* when the offer to make n active is answered 'y' or with a bare Enter; any
\* other answer in gemini.py leaves it returning (None, None).
C3_FirstAddActiveWhenAccepted ==
    [][FirstAddDone
       => LET first == Gem(mem').api_keys[1]
          IN  /\ first.nickname = loc.new_nickname
              /\ first.key # NoText
              /\ GetActiveGeminiKeyValue(Gem(mem')) =
                    IF loc.impl = "main" \/ IsYes(Lower(Strip(inp')))
                    THEN <<first.key, first.nickname>>
                    ELSE <<NoText, NoText>>]_vars

\* gemini.py: the first key was added and the offer declined
C3_Witness ==
    /\ pc = "key_menu"
    /\ loc.impl = "gemini"
    /\ loc.original_keys_config.api_keys = << >>
    /\ loc.original_keys_config.active_api_key_nickname = NoText
    /\ Len(Gem(mem).api_keys) = 1
    /\ inp = <<"n">>
    /\ GetActiveGeminiKeyValue(Gem(mem)) = <<NoText, NoText>>

\* C3 as claimed: the first add to an empty key set always leaves
\* _get_active_gemini_key_value returning the new key and nickname.
C3_FirstAddAlwaysActive ==
    [][FirstAddDone
       => LET first == Gem(mem').api_keys[1]
          IN  GetActiveGeminiKeyValue(Gem(mem')) = <<first.key, first.nickname>>]_vars

\* the append of a successful add
KeyAppended == pc = "add_key" /\ pc' # "idle" /\ mem' # mem

\* C4: gemini.py offers to make the new key active after every successful
\* add; the active nickname becomes the new nickname when the answer is 'y' or
\* a bare Enter and is unchanged otherwise.  main.py makes no offer: the new
\* key becomes active when no active nickname is set or it is the only entry,
\* and the active nickname is unchanged otherwise.
C4_OfferAfterEveryAdd ==
    [][/\ (KeyAppended /\ loc.impl = "gemini")
            => pc' = "add_make_active" /\ ActiveKept
       /\ (pc = "add_make_active" /\ pc' = "key_menu")
            => IF IsYes(Lower(Strip(inp')))
               THEN ActiveBecomes(loc.new_nickname)
               ELSE ActiveKept
       /\ (KeyAppended /\ loc.impl = "main")
            => /\ pc' = "key_menu"
               /\ IF loc.active_api_key_nickname = NoText \/ Gem(mem).api_keys = << >>
                  THEN ActiveBecomes(loc.new_nickname)
                  ELSE ActiveKept]_vars

\* gemini.py: the menu started with one key, active; a second key was added
\* and, the offer accepted, is now the active one
C4_Witness ==
    /\ pc = "key_menu"
    /\ loc.impl = "gemini"
    /\ Len(loc.original_keys_config.api_keys) = 1
    /\ loc.original_keys_config.active_api_key_nickname =
            loc.original_keys_config.api_keys[1].nickname
    /\ Len(Gem(mem).api_keys) = 2
    /\ Gem(mem).api_keys[1] = loc.original_keys_config.api_keys[1]
    /\ Gem(mem).active_api_key_nickname = Gem(mem).api_keys[2].nickname
    /\ IsYes(Lower(Strip(inp)))
    /\ out = {"set_active"}

\* C4 as claimed: the offer follows a successful add exactly when the entry
\* is the first or the active nickname names no entry, and an add made while
\* the active nickname names an entry leaves the active nickname unchanged.
C4_OfferOnlyWithoutActive ==
    [][/\ KeyAppended
            => (pc' = "add_make_active"
                    <=> \/ Gem(mem).api_keys = << >>
                        \/ ~Names(Gem(mem).api_keys, loc.active_api_key_nickname))
       /\ (KeyAppended /\ Names(Gem(mem).api_keys, loc.active_api_key_nickname))
            => ActiveKept
       /\ (/\ pc = "add_make_active" /\ pc' = "key_menu"
           /\ Names(SubSeq(Gem(mem).api_keys, 1, Len(Gem(mem).api_keys) - 1),
                    loc.active_api_key_nickname))
            => ActiveKept]_vars

\* show_active_configuration has just printed the active Gemini key, so ret
\* is what _get_active_gemini_key_value returned for the stored profile
KeyResolved ==
    /\ pc = "idle"
    /\ out \cap {"key_shown", "key_value_missing", "key_not_set"} # {}

\* C5: _get_active_gemini_key_value returns (key, nickname) when the active
\* nickname is set and names an entry; (None, nickname) when it is set, the
\* key list is not empty and no entry has that nickname; and (None, None)
\* when no active nickname is set or the key list is empty.
C5_ResolveActive ==
    KeyResolved =>
        LET active == Gem(disk.doc).active_api_key_nickname
            keys == Gem(disk.doc).api_keys
        IN  /\ (active # NoText /\ Names(keys, active))
                => \E i \in 1..Len(keys) :
                        /\ keys[i].nickname = active
                        /\ ret = <<keys[i].key, active>>
            /\ (active # NoText /\ keys # << >> /\ ~Names(keys, active))
                => ret = <<NoText, active>>
            /\ (active = NoText \/ keys = << >>)
                => ret = <<NoText, NoText>>

\* the active nickname is set, the key list is empty, (None, None) returned
C5_Witness ==
    /\ KeyResolved
    /\ Gem(disk.doc).active_api_key_nickname # NoText
    /\ Gem(disk.doc).api_keys = << >>
    /\ ret = <<NoText, NoText>>
    /\ out = {"key_not_set"}

\* C5 as claimed: (None, nickname) whenever the active nickname is set and
\* names no entry, the empty key list included; (None, None) only when no
\* active nickname is set.
C5_DanglingKeepsNickname ==
    KeyResolved =>
        LET active == Gem(disk.doc).active_api_key_nickname
            keys == Gem(disk.doc).api_keys
        IN  /\ (active # NoText /\ ~Names(keys, active)) => ret = <<NoText, active>>
            /\ ret = <<NoText, NoText>> => active = NoText

\* the prompts of the program that take a (Y/n) answer
YesNoPrompts == {"add_make_active", "delete_confirm", "gemini_not_configured"}

\* a step of a running menu after which the key list is shorter
KeyListShrinks ==
    /\ HasService(mem, LLM_SERVICE_GEMINI) /\ HasService(mem', LLM_SERVICE_GEMINI)
    /\ Len(Gem(mem').api_keys) < Len(Gem(mem).api_keys)

\* the step of menu option 3: the only step within the menu that records a line
RemoveStep == pc = "key_menu" /\ pc' = "key_menu" /\ inp' # NoText

\* C14: an entry leaves the key list only in the step of menu option 3 that
\* reads the number of the key to remove, with no further prompt: the number
\* of a listed key removes that key at once, and any other line (the number
\* of "Cancel removal" included) removes nothing.
C14_RemovalAtSelection ==
    [][/\ KeyListShrinks => RemoveStep
       /\ RemoveStep
            => LET keys == Gem(mem).api_keys
                   number == Strip(inp')
               IN  IF IsInt(number) /\ IntOf(number) \in 1..Len(keys)
                   THEN Gem(mem').api_keys = Pop(keys, IntOf(number))
                   ELSE mem' = mem /\ loc' = loc]_vars

\* the second of two keys has just been removed
C14_Witness ==
    /\ pc = "key_menu"
    /\ Strip(inp) = <<"2">>
    /\ Len(loc.original_keys_config.api_keys) = 2
    /\ Gem(mem).api_keys = <<loc.original_keys_config.api_keys[1]>>

\* C14 as claimed: an entry leaves the key list only in a step that answers a
\* (Y/n) confirmation prompt with 'y' or a bare Enter.
C14_RemovalAfterConfirmation ==
    [][KeyListShrinks
       => pc \in YesNoPrompts /\ IsYes(Lower(Strip(inp')))]_vars

\* nicknames pairwise different, no empty nickname, no empty key
WellFormedKeys(keys_list) ==
    /\ \A i, j \in 1..Len(keys_list) :
            i # j => keys_list[i].nickname # keys_list[j].nickname
    /\ \A i \in 1..Len(keys_list) :
            keys_list[i].nickname # NoText /\ keys_list[i].key # NoText

\* C20: while the key menu runs on a key list that was read with pairwise
\* different nicknames, and in the file it leaves, nicknames stay pairwise
\* different (compared exactly) and no entry has an empty nickname or key.
C20_NicknamesStayUnique ==
    /\ HasService(mem, LLM_SERVICE_GEMINI) => WellFormedKeys(Gem(mem).api_keys)
    /\ (disk.state = "ok" /\ HasService(disk.doc, LLM_SERVICE_GEMINI))
            => WellFormedKeys(Gem(disk.doc).api_keys)

\* a second key was added whose nickname differs from the first in case only
C20_Witness ==
    /\ pc = "key_menu"
    /\ Len(loc.original_keys_config.api_keys) = 1
    /\ Len(Gem(mem).api_keys) = 2
    /\ Gem(mem).api_keys[1].nickname # Gem(mem).api_keys[2].nickname
    /\ Lower(Gem(mem).api_keys[1].nickname) = Lower(Gem(mem).api_keys[2].nickname)

\* the active nickname of the profile is unset or names a key of its list
PointsToKey(profile) ==
    \/ profile.active_api_key_nickname = NoText
    \/ Names(profile.api_keys, profile.active_api_key_nickname)

\* the key menu or its add dialogue is running
InKeyMenu == pc \in {"key_menu", "add_nickname", "add_key", "add_make_active"}

\* C28: from a file whose active nickname is unset or names a key, the
\* key menu never leaves an active nickname that names no key, neither in
\* config_data nor in the file, whatever is typed; and its local copy of
\* the active nickname equals the one in the profile.
C28_ActiveNeverDangles ==
    /\ HasService(mem, LLM_SERVICE_GEMINI) => PointsToKey(Gem(mem))
    /\ (disk.state = "ok" /\ HasService(disk.doc, LLM_SERVICE_GEMINI))
            => PointsToKey(Gem(disk.doc))
    /\ InKeyMenu =>
            loc.active_api_key_nickname = Gem(mem).active_api_key_nickname

\* in the menu of gemini.py the active key of two was removed
C28_Witness ==
    /\ pc = "key_menu"
    /\ loc.impl = "gemini"
    /\ Len(loc.original_keys_config.api_keys) = 2
    /\ Len(Gem(mem).api_keys) = 1
    /\ loc.original_keys_config.active_api_key_nickname # NoText
    /\ ~Names(Gem(mem).api_keys, loc.original_keys_config.active_api_key_nickname)

----------------------------------------------------------------------------
\* Properties of the active and previous service (SpecServices)

\* messages of show_active_configuration
ShowMessages ==
    {"key_shown", "key_value_missing", "key_not_set", "server_shown",
     "no_active_service", "details_missing", "config_not_found", "invalid_json"}

\* a run of jump_to_previous_llm on a document that loads
JumpStep ==
    /\ pc = "idle" /\ pc' = "idle"
    /\ disk.state = "ok"
    /\ out' \cap ShowMessages = {}

\* C6: at the switch prompt only the number of a configured service selects
\* one.  Selecting a service other than the active one stores the document
\* with that service active and, if a service was active, that one as the
\* previous service; selecting the active service, cancelling or any other
\* line leaves the file as it was.
C6_SwitchRecordsPrevious ==
    [][(pc = "switch_prompt" /\ pc' = "idle" /\ "interrupted" \notin out')
       => LET configured_services == ConfiguredServices(disk.doc)
              picks == {i \in 1..Len(configured_services) :
                            NumberText(i) = Lower(Strip(inp'))}
              chosen_service == configured_services[CHOOSE i \in picks : TRUE]
              current_active == disk.doc.active_llm_service
          IN  /\ mem = disk.doc
              /\ IF picks # {} /\ chosen_service # current_active
                 THEN /\ HasService(disk.doc, chosen_service)
                      /\ disk' = Stored([disk.doc EXCEPT
                            !.active_llm_service = chosen_service,
                            !.previous_active_llm_service =
                                IF current_active # None THEN current_active ELSE @])
                      /\ "now_active" \in out'
                 ELSE disk' = disk
              /\ (picks # {} /\ chosen_service = current_active)
                    => out' = {"already_active"}]_vars

\* the second service was chosen while the first was active
C6_Witness ==
    /\ pc = "idle"
    /\ "now_active" \in out
    /\ Strip(inp) = <<"2">>
    /\ disk.doc.active_llm_service = LLM_SERVICE_GEMINI
    /\ disk.doc.previous_active_llm_service = LLM_SERVICE_OLLAMA

\* C7: a jump with a previous service that is configured and is not the
\* active one stores the document with the two pointers exchanged and all
\* else as it was, and ends with status 0.
C7_JumpSwaps ==
    [][(/\ JumpStep
        /\ disk.doc.previous_active_llm_service # None
        /\ HasService(disk.doc, disk.doc.previous_active_llm_service)
        /\ disk.doc.previous_active_llm_service # disk.doc.active_llm_service)
       => /\ disk' = Stored([disk.doc EXCEPT
                !.active_llm_service = disk.doc.previous_active_llm_service,
                !.previous_active_llm_service = disk.doc.active_llm_service])
          /\ "jumped" \in out'
          /\ exit' = 0]_vars

\* one jump has exchanged two different configured services
C7_Witness ==
    /\ pc = "idle"
    /\ "jumped" \in out
    /\ jumps.n = 1
    /\ jumps.active # jumps.previous
    /\ disk.doc.active_llm_service = jumps.previous
    /\ disk.doc.previous_active_llm_service = jumps.active

\* C8: after two consecutive jumps from a document whose active and previous
\* service are both configured, the stored pair is the one before them.
C8_JumpTwiceRestores ==
    jumps.n = 2 =>
        /\ disk.state = "ok"
        /\ disk.doc.active_llm_service = jumps.active
        /\ disk.doc.previous_active_llm_service = jumps.previous

\* two jumps between two different services
C8_Witness ==
    /\ jumps.n = 2
    /\ jumps.active # jumps.previous
    /\ "jumped" \in out
    /\ disk.doc.active_llm_service = jumps.active

\* C9: a jump with a previous service that is not configured ends with
\* status 1 and stores the document with the previous service cleared and
\* all else, the active service included, as it was.
C9_StalePreviousCleared ==
    [][(/\ JumpStep
        /\ disk.doc.previous_active_llm_service # None
        /\ ~HasService(disk.doc, disk.doc.previous_active_llm_service))
       => /\ exit' = 1
          /\ "stale_previous" \in out'
          /\ disk' = Stored([disk.doc EXCEPT !.previous_active_llm_service = None])]_vars

\* a jump has failed on a service that is active
C9_Witness ==
    /\ pc = "idle"
    /\ "stale_previous" \in out
    /\ exit = 1
    /\ disk.doc.previous_active_llm_service = None
    /\ disk.doc.active_llm_service # None
    /\ HasService(disk.doc, disk.doc.active_llm_service)

\* C10: a jump with no previous service recorded reports it, leaves the file
\* as it was and ends with status 0.
C10_NoPreviousExitsZero ==
    [][(JumpStep /\ disk.doc.previous_active_llm_service = None)
       => /\ out' = {"no_previous"}
          /\ disk' = disk
          /\ exit' = 0]_vars

\* a jump has ended with status 0 and nothing to jump to
C10_Witness ==
    /\ pc = "idle"
    /\ out = {"no_previous"}
    /\ exit = 0
    /\ disk.doc.previous_active_llm_service = None
    /\ disk.doc.active_llm_service # None

\* C10 as claimed: a jump with no previous service recorded leaves the file
\* as it was and ends with a status other than 0.
C10_NoPreviousExitsNonzero ==
    [][(JumpStep /\ disk.doc.previous_active_llm_service = None)
       => /\ disk' = disk
          /\ exit' > 0]_vars

\* C15: delete_config_file asks only when the file exists and otherwise
\* reports that there is nothing to delete; the file is removed exactly when
\* the trimmed, lower-cased answer is 'y' or empty, and then load_config
\* finds no file; any other answer and Ctrl-C leave the file as it was; all
\* of these runs end with status 0.
C15_DeleteOnConfirmation ==
    [][/\ (pc = "idle" /\ pc' = "delete_confirm")
            => ~LoadIsNone(disk) /\ disk' = disk
       /\ (pc = "idle" /\ "nothing_to_delete" \in out')
            => LoadIsNone(disk) /\ disk' = disk /\ exit' = 0
       /\ (pc = "delete_confirm" /\ "interrupted" \notin out')
            => /\ pc' = "idle" /\ exit' = 0
               /\ IF Lower(Strip(inp')) \in {<<"y">>, << >>}
                  THEN LoadIsNone(disk') /\ "deleted" \in out'
                  ELSE disk' = disk /\ "deletion_cancelled" \in out'
       /\ (pc = "delete_confirm" /\ "interrupted" \in out')
            => disk' = disk /\ exit' = 0]_vars

\* a bare Enter has just deleted the file
C15_Witness ==
    /\ pc = "idle"
    /\ "deleted" \in out
    /\ inp = << >>
    /\ exit = 0
    /\ LoadIsNone(disk)

----------------------------------------------------------------------------
\* Properties of the editor from a first run on (SpecSetup)

\* the active service of a document is none or one of its profiles
ActiveIsConfigured(cfg) ==
    cfg.active_llm_service = None \/ HasService(cfg, cfg.active_llm_service)

\* C12: in every configuration file that the editor operations (set up or
\* reconfigure a service, switch, jump, change the model, manage keys,
\* delete) write starting without a file, the active service is none or a
\* key of llm_services.
C12_ActiveIsConfigured ==
    disk.state = "ok" => ActiveIsConfigured(disk.doc)

\* both services set up, one switched to and then jumped back from
C12_Witness ==
    /\ disk.state = "ok"
    /\ Len(ConfiguredServices(disk.doc)) = 2
    /\ disk.doc.active_llm_service = LLM_SERVICE_OLLAMA
    /\ disk.doc.previous_active_llm_service = LLM_SERVICE_GEMINI
    /\ "jumped" \in out

\* the registry a fresh load of the file gives (the default one without a file)
PersistedDoc == IF disk.state = "ok" THEN disk.doc ELSE DefaultConfig

\* _configure_selected_service returns to its caller
ConfigureReturns == pc = "setup_done" /\ pc' = "configure_done"

\* C13: whenever _configure_selected_service finishes and control returns
\* to its caller, the document on disk equals the registry in memory, so
\* no profile or key added in memory during the action is left unsaved.
C13_SavedWhenConfigureReturns ==
    [][ConfigureReturns => PersistedDoc' = mem']_vars

\* a service-setup flow is under way: the service is being selected, or
\* _configure_selected_service has not returned yet
InSetupFlow ==
    \/ pc = "select_service"
    \/ \E i \in 1..Len(stack) : stack[i] = "configure"

\* the setup function has just returned a completed configuration
SetupCompleted == pc = "setup_done" /\ "service_configured" \in out

\* C16: no step of a service-setup flow changes the configuration file,
\* except the save of _configure_selected_service after its setup function
\* returned a completed configuration; so a flow cancelled at the service
\* selection, the address, the key menu, a retry prompt or the model
\* selection, by a cancel input or by Ctrl-C, leaves the file as it was.
C16_CancelledSetupKeepsFile ==
    [][(InSetupFlow /\ ~SetupCompleted) => disk' = disk]_vars

\* a Gemini setup given up after the profile was changed in memory, with a
\* file on disk that does not have the change
C16_Witness ==
    /\ pc = "configure_done"
    /\ out = {"not_completed"}
    /\ disk.state = "ok"
    /\ mem # disk.doc

\* the profile of service s in cfg is a completed configuration: a model
\* chosen, and an address or an active key that resolves
ProfileComplete(cfg, s) ==
    LET profile == cfg.llm_services[s]
    IN  /\ profile.model # None
        /\ IF s = LLM_SERVICE_OLLAMA
           THEN profile.server_address # NoText
           ELSE CanContinue(profile.active_api_key_nickname, profile.api_keys)

\* service s becomes a key of llm_services in memory, or in the file
ProfileAppears(s) ==
    \/ ~HasService(mem, s) /\ HasService(mem', s) /\ ~ProfileComplete(mem', s)
    \/ ~HasService(PersistedDoc, s) /\ HasService(PersistedDoc', s)
        /\ ~ProfileComplete(PersistedDoc', s)

\* C19: a service becomes a key of llm_services, in memory or in the file,
\* only with a completed configuration (an address or a usable active key,
\* and a model), and a profile in the file disappears only when the file
\* is deleted.
C19_ProfilesOnlyWhenCompleted ==
    [][\A s \in Services :
        /\ ~ProfileAppears(s)
        /\ (HasService(PersistedDoc, s) /\ ~HasService(PersistedDoc', s))
            => disk'.state = "absent"]_vars

\* the line is the number of a model of the list shown
NumberInList(line) ==
    /\ IsInt(Strip(line))
    /\ 1 <= IntOf(Strip(line))
    /\ IntOf(Strip(line)) <= Len(ModelList)

\* a line was typed in this step (Ctrl-C is not a line)
LineTyped == "setup_cancelled" \notin out' /\ "interrupted" \notin out'

\* the line typed at the model prompt of a setup function selects nothing:
\* no number of the list, and no bare Enter that keeps a listed model
InvalidAtSetup ==
    /\ pc \in {"ollama_model", "gemini_model"}
    /\ LineTyped
    /\ ~NumberInList(inp')
    /\ LET s == IF pc = "ollama_model" THEN LLM_SERVICE_OLLAMA ELSE LLM_SERVICE_GEMINI
       IN  ~(/\ Strip(inp') = NoText
             /\ \E i \in 1..Len(ModelList) : ModelList[i] = CurrentModel(mem, s))

\* the line typed at the prompt of _handle_active_model_change is neither
\* a number of the list nor 'c'
InvalidAtModelChange ==
    /\ pc = "model_prompt"
    /\ LineTyped
    /\ ~NumberInList(inp')
    /\ Lower(Strip(inp')) # <<"c">>

\* C22: an out-of-range or non-numeric line at a model prompt changes
\* neither config_data nor the file.  The setup functions show their
\* prompt again; _handle_active_model_change reports the line and returns
\* to its caller without asking again.
C22_InvalidModelLineChangesNothing ==
    [][/\ InvalidAtSetup => (pc' = pc /\ mem' = mem /\ disk' = disk)
       /\ InvalidAtModelChange =>
            /\ disk' = disk
            /\ pc' \in {"idle", "settings_menu"}
            /\ pc' = "settings_menu" => mem' = mem]_vars

\* back in the settings menu after a number past the end of the list
C22_Witness ==
    /\ pc = "settings_menu"
    /\ "invalid_selection" \in out
    /\ Strip(inp) = <<"3">>

\* C22 as stated: every model prompt is shown again after such a line
C22_InvalidModelLineReprompts ==
    [][(InvalidAtSetup \/ InvalidAtModelChange)
        => (pc' = pc /\ mem' = mem /\ disk' = disk)]_vars

\* the model is one of the list shown
Listed(model) == \E i \in 1..Len(ModelList) : ModelList[i] = model

\* the model the line selects: the one at its 1-based number, or the
\* current one on a bare Enter
Selected(line, current_model) ==
    IF NumberInList(line) THEN ModelList[IntOf(Strip(line))] ELSE current_model

\* the model loop of a setup function ends with a model chosen
SetupSelects ==
    /\ pc \in {"ollama_model", "gemini_model"}
    /\ "service_configured" \in out'

\* a number of the list is typed at the prompt of _handle_active_model_change
ModelChangeSelects ==
    /\ pc = "model_prompt"
    /\ LineTyped
    /\ NumberInList(inp')

\* C23: a model selection that succeeds stores the model at the 1-based
\* number typed, or the current model on a bare Enter while that model is
\* in the list; the stored model is one of the list shown, and it is in
\* the file once _configure_selected_service or the model change is done.
C23_SelectedModelStored ==
    [][/\ SetupSelects =>
            LET s == IF pc = "ollama_model" THEN LLM_SERVICE_OLLAMA
                     ELSE LLM_SERVICE_GEMINI
            IN  /\ \/ NumberInList(inp')
                   \/ Strip(inp') = NoText /\ Listed(CurrentModel(mem, s))
                /\ CurrentModel(mem', s) = Selected(inp', CurrentModel(mem, s))
                /\ Listed(CurrentModel(mem', s))
       /\ (ConfigureReturns /\ loc.updated) =>
            /\ disk'.state = "ok"
            /\ CurrentModel(disk'.doc, loc.service_const)
                   = CurrentModel(mem, loc.service_const)
       /\ ModelChangeSelects =>
            /\ disk'.state = "ok"
            /\ CurrentModel(disk'.doc, mem.active_llm_service)
                   = Selected(inp', None)]_vars

\* the second model of the list was chosen in the model change and saved
C23_Witness ==
    /\ pc = "settings_menu"
    /\ "model_set" \in out
    /\ Strip(inp) = <<"2">>
    /\ disk.state = "ok"
    /\ CurrentModel(disk.doc, disk.doc.active_llm_service) = ModelList[2]

\* the key menu that _setup_gemini_service opened is left with 'x'
KeysCancelledInSetup ==
    /\ pc = "key_menu"
    /\ Head(stack) = "gemini_setup"
    /\ Lower(Strip(inp')) = <<"x">>
    /\ pc' # "key_menu"

\* C26: when the key menu of a Gemini setup is left with 'x', the menu
\* returns False and _setup_gemini_service returns without listing or
\* selecting models.
C26_CancelledKeysEndSetup ==
    [][KeysCancelledInSetup => (pc' = "setup_done" /\ ~loc'.updated)]_vars

\* _configure_selected_service has set up a service that is neither the
\* first nor the only one configured, while another service is active
SecondServiceConfigured ==
    /\ ConfigureReturns
    /\ loc.updated
    /\ mem.active_llm_service # None
    /\ mem.active_llm_service # loc.service_const
    /\ Len(ConfiguredServices(mem)) > 1

\* C27: a service set up by _configure_selected_service is made active
\* only when it is the first or the only service configured; when another
\* service is active, the active and the previous service stay as they
\* are.
C27_ActivatedOnlyWhenFirstOrOnly ==
    [][SecondServiceConfigured =>
        /\ mem'.active_llm_service = mem.active_llm_service
        /\ mem'.previous_active_llm_service = mem.previous_active_llm_service]_vars

\* the previous service of the document is unset, or it is configured,
\* differs from the active service, and an active service is set
PreviousInOrder(cfg) ==
    \/ cfg.previous_active_llm_service = None
    \/ /\ HasService(cfg, cfg.previous_active_llm_service)
       /\ cfg.previous_active_llm_service # cfg.active_llm_service
       /\ cfg.active_llm_service # None

\* C29: in every document the program reaches from no file by setting up
\* services, switching and jumping, the previous service is unset or is a
\* configured service other than the active one, with an active service
\* set; so jump_to_previous_llm never finds a previous service that is no
\* longer configured, nor one that equals the active service.
C29_PreviousInOrder ==
    /\ PreviousInOrder(mem)
    /\ disk.state = "ok" => PreviousInOrder(disk.doc)
    /\ out \cap {"stale_previous", "already_using"} = {}

\* a jump was made: the file names a previous service
C29_Witness ==
    /\ pc = "idle"
    /\ "jumped" \in out
    /\ disk.state = "ok"
    /\ disk.doc.previous_active_llm_service # None

\* in the initial setup _configure_selected_service has returned after a
\* setup that was cancelled or failed
InitialSetupNotCompleted ==
    /\ pc = "configure_done"
    /\ Head(stack) = "initial"
    /\ "not_completed" \in out

\* C30: without a configuration file, a setup of the chosen service that
\* was cancelled or failed ends the run with "Initial service setup
\* failed" and exit status 1; the flow goes on neither to "Initial setup
\* complete" and the settings menu nor to a handler.
C30_FailedInitialSetupExits ==
    [][InitialSetupNotCompleted =>
        (out' = {"initial_failed"} /\ pc' = "idle" /\ exit' = 1)]_vars

----------------------------------------------------------------------------
\* Properties of the send functions (SpecAnimation)

\* the line holds a part of the result
HoldsResult(line) ==
    \E k \in 1..Len(line) : line[k].text \in {"header", "body", "footer", "error"}

HoldsFrame(line) == \E k \in 1..Len(line) : line[k].text = "frame"

\* the main flow has started to print the response or the error
PrintingStarted == sender.pc \in {"body", "footer", "returned"}

\* C24: when the main flow prints the response or the error, the stop
\* signal is set and the join is behind it, and no frame of the animation
\* is written from then on: no line below the first line of the result
\* holds a frame.
C24_NoFrameAfterResult ==
    /\ PrintingStarted => stop_event
    /\ \A i \in 1..Len(stdout) : \A j \in 1..Len(stdout) :
          (i < j /\ HoldsResult(stdout[i])) => ~HoldsFrame(stdout[j])

----------------------------------------------------------------------------
\* Properties of invocations side by side (SpecPeers)

\* the invocation will not touch the file again
PeerDone(i) == peers[i].pc \in {"saved", "exited", "load_error"}

\* invocation i saves last: its write ends while the other is done
SavesLast(i) ==
    /\ peers[i].pc = "opened"
    /\ peers'[i].pc = "saved"
    /\ \A j \in Invocations \ {i} : PeerDone(j)

\* C25: when two invocations load, change and save the same file, the
\* file holds in the end exactly the document of the invocation that
\* saved last, however their steps interleave.
C25_LastWriterWins ==
    [][\A i \in Invocations :
          SavesLast(i) => disk' = Stored(peers[i].config_data)]_vars

\* a lost update: both invocations have saved, and the file holds the
\* document of the second only
C25_LostUpdate ==
    /\ \A i \in Invocations : peers[i].pc = "saved"
    /\ disk = Stored(peers[2].config_data)
    /\ disk # Stored(peers[1].config_data)

----------------------------------------------------------------------------
\* Properties of the editor when writes may fail (SpecIO)

\* C18: a step in which save_config reports a failure ends the run with a
\* nonzero status; it does not go on to later steps of the action.
C18_SaveFailureEndsRun ==
    [][("save_error" \in out') => (pc' = "idle" /\ exit' > 0)]_vars

----------------------------------------------------------------------------
\* Properties of the query action (SpecDispatch)

\* the active key of a Gemini profile resolves to a secret
KeyResolves(profile) ==
    /\ profile.active_api_key_nickname # NoText
    /\ \E i \in 1..Len(profile.api_keys) :
        /\ profile.api_keys[i].nickname = profile.active_api_key_nickname
        /\ \A j \in 1..(i - 1) :
            profile.api_keys[j].nickname # profile.active_api_key_nickname
        /\ profile.api_keys[i].key # NoText

\* what the run that starts now with a query must end with, for a stored
\* document with an active service: the first defect only, status 1 and no
\* query sent; without a defect the query is sent
FirstDefectReported(cfg) ==
    LET a == cfg.active_llm_service
    IN  IF ~HasService(cfg, a)
        THEN out' = {"no_active_service"} /\ exit' = 1
        ELSE IF cfg.llm_services[a].model = None
        THEN out' = {"no_model"} /\ exit' = 1
        ELSE IF a = LLM_SERVICE_OLLAMA /\ cfg.llm_services[a].server_address = NoText
        THEN out' = {"no_address"} /\ exit' = 1
        ELSE IF a = LLM_SERVICE_GEMINI /\ ~KeyResolves(cfg.llm_services[a])
        THEN out' = {"no_active_key"} /\ exit' = 1
        ELSE "query_sent" \in out'

\* C11: a run of main() without an action flag, on a stored document whose
\* active service is set, with a query, ends with exactly one error, status
\* 1 and no query sent when the active service is not a key of
\* llm_services, else when its model is unset, else when Ollama has no
\* address or Gemini no active key with a secret; the first defect in this
\* order is the one reported.  Without a query it ends with "a query is
\* required".  Without a file or without an active service it does not
\* fail: it runs the setup.
C11_FirstDefectReported ==
    [][pc = "idle" /\ disk.state # "corrupt" =>
        IF disk.state = "absent" \/ disk.doc.active_llm_service = None
        THEN pc' = "legacy_select" /\ out' = {"running_setup"} /\ exit' = -1
        ELSE /\ pc' = "idle"
             /\ \/ out' = {"query_required"} /\ exit' = 1
                \/ FirstDefectReported(disk.doc)]_vars

\* a Gemini profile without a model and without a key: the model is reported
C11_Witness ==
    /\ pc = "idle"
    /\ exit = 1
    /\ out = {"no_model"}
    /\ disk.state = "ok"
    /\ disk.doc.active_llm_service = LLM_SERVICE_GEMINI
    /\ HasService(disk.doc, LLM_SERVICE_GEMINI)
    /\ Gem(disk.doc).api_keys = << >>

\* C11 as stated: a run that finds no file or no active service never
\* sends a query (only such a run goes through the setup of main.py).
C11_NoActiveServiceNeverSends ==
    [][(stack # << >> /\ stack[Len(stack)] \in {"query", "no_query"})
        => "query_sent" \notin out']_vars

\* C17: a query whose submission ends in a network error or in a response
\* that cannot be used ends the run with status 1; a run that sent a query
\* ends with status 0 only when a response was printed.
C17_SendFailureExitsOne ==
    [][/\ (out' \cap {"network_error", "malformed_response"} # {}) => exit' = 1
       /\ ("query_sent" \in out' /\ exit' = 0) => "response_printed" \in out']_vars

----------------------------------------------------------------------------
\* Properties of the calls to a server (SpecNetwork)

\* the prompts of the running process: nothing happens without a line typed
Prompts ==
    {"key_menu", "add_nickname", "add_key", "add_make_active", "llm_menu",
     "switch_prompt", "delete_confirm", "select_service", "legacy_select",
     "ollama_address", "ollama_port", "ollama_retry", "ollama_model",
     "gemini_retry", "gemini_no_models", "gemini_model",
     "gemini_not_configured", "model_prompt", "settings_menu"}

\* C21: a step in which fetching the models or sending the query fails
\* leaves the configuration file as it was and is not followed by another
\* call without a line typed: a setup function stops at its "try again"
\* prompt, _handle_active_model_change returns, the query run ends (in
\* a run that set a service up first, the file is the one saved before
\* the query was sent).
C21_FailedCallIsTerminal ==
    [][/\ ("fetch_failed" \in out') =>
            /\ disk' = disk
            /\ pc' \in {"ollama_retry", "gemini_retry", "settings_menu", "idle"}
       /\ ("network_error" \in out') =>
            /\ pc' = "idle"
            /\ \/ disk' = disk
               \/ /\ pc = "setup_done"
                  /\ disk' = Stored(LegacyActivate(mem, loc.service_const))]_vars

\* the fetch of _setup_ollama_service failed while a file exists
C21_Witness ==
    /\ pc = "ollama_retry"
    /\ "fetch_failed" \in out
    /\ disk.state = "ok"

====
